---------------------------- MODULE Spec2Model ----------------------------
(***************************************************************************)
(* Verification model of the pjpipe stripe-noise removal code:             *)
(*   src/pjpipe/single_tile_destripe/single_tile_destripe_step.py          *)
(*   src/pjpipe/multi_tile_destripe/multi_tile_destripe_step.py            *)
(*   src/pjpipe/utils/utils.py                                             *)
(*   src/nircam_destriping.py                                              *)
(*                                                                         *)
(* Pixel values are integers (flux in model units); NaN is a distinguished *)
(* value.  A 2-D array is a sequence of rows, each row a sequence of       *)
(* values; indices are 1-based here and 0-based in the source.             *)
(***************************************************************************)
EXTENDS Integers, Sequences, FiniteSets, TLC

(***************************************************************************)
(* Floating point: np.nan and the arithmetic that propagates it.           *)
(***************************************************************************)
NaN == -1000000

IsNaN(x) == x = NaN

IsFinite(x) == x # NaN

Add(x, y) == IF IsNaN(x) \/ IsNaN(y) THEN NaN ELSE x + y

Sub(x, y) == IF IsNaN(x) \/ IsNaN(y) THEN NaN ELSE x - y

Abs(x) == IF x < 0 THEN -x ELSE x

Min(a, b) == IF a < b THEN a ELSE b

Max(a, b) == IF a > b THEN a ELSE b

(***************************************************************************)
(* Python slice semantics: a[start:stop] on an axis of length n, with      *)
(* negative indices counted from the end and both ends clipped to 0..n.    *)
(* PyLo is the 0-based first index kept, PyHi the 0-based end (exclusive). *)
(***************************************************************************)
PyIdx(n, k) == IF k < 0 THEN Max(n + k, 0) ELSE Min(k, n)

PyLo(n, start) == PyIdx(n, start)

PyHi(n, stop) == PyIdx(n, stop)

(***************************************************************************)
(* 2-D arrays.                                                             *)
(***************************************************************************)
\* An array holds its values: every element is computed once, when the array
\* is built, as numpy does; a vector is a 1-D array.
Vec(v) == SubSeq(v, 1, Len(v))

Arr(a) == Vec([r \in 1 .. Len(a) |-> Vec(a[r])])

NRowsOf(a) == Len(a)

NColsOf(a) == IF Len(a) = 0 THEN 0 ELSE Len(a[1])

Shape(a) == <<NRowsOf(a), NColsOf(a)>>

Full(h, w, v) == Arr([r \in 1 .. h |-> [c \in 1 .. w |-> v]])

ZerosLike(a) == Arr([r \in 1 .. Len(a) |-> [c \in 1 .. Len(a[r]) |-> 0]])

FullLike(a, v) == Arr([r \in 1 .. Len(a) |-> [c \in 1 .. Len(a[r]) |-> v]])

\* a[:, c0:c1] with 0-based Python bounds
ColSlice(a, start, stop) ==
    Vec([r \in 1 .. Len(a) |->
        SubSeq(a[r], PyLo(Len(a[r]), start) + 1, PyHi(Len(a[r]), stop))])

\* a[r0:r1, :]
RowSlice(a, start, stop) ==
    SubSeq(a, PyLo(Len(a), start) + 1, PyHi(Len(a), stop))

\* elementwise a - b and a + b (equal shapes)
ArrSub(a, b) == Arr([r \in 1 .. Len(a) |-> [c \in 1 .. Len(a[r]) |-> Sub(a[r][c], b[r][c])]])

ArrAdd(a, b) == Arr([r \in 1 .. Len(a) |-> [c \in 1 .. Len(a[r]) |-> Add(a[r][c], b[r][c])]])

\* a - s for a scalar s
ArrSubScalar(a, s) == Arr([r \in 1 .. Len(a) |-> [c \in 1 .. Len(a[r]) |-> Sub(a[r][c], s)]])

\* a + v[:, np.newaxis] : one value per row
ArrAddRowVec(a, v) == Arr([r \in 1 .. Len(a) |-> [c \in 1 .. Len(a[r]) |-> Add(a[r][c], v[r])]])

ArrSubRowVec(a, v) == Arr([r \in 1 .. Len(a) |-> [c \in 1 .. Len(a[r]) |-> Sub(a[r][c], v[r])]])

\* a + v[np.newaxis, :] : one value per column
ArrAddColVec(a, v) == Arr([r \in 1 .. Len(a) |-> [c \in 1 .. Len(a[r]) |-> Add(a[r][c], v[c])]])

ArrSubColVec(a, v) == Arr([r \in 1 .. Len(a) |-> [c \in 1 .. Len(a[r]) |-> Sub(a[r][c], v[c])]])

\* the index set of a 2-D array
Cells(a) == {<<r, c>> : r \in 1 .. NRowsOf(a), c \in 1 .. NColsOf(a)}

(***************************************************************************)
(* Order statistics of a finite family of finite values.  A family is a    *)
(* function f with the set S of the indices that take part.                *)
(***************************************************************************)
ValuesOf(f, S) == {f[i] : i \in S}

CountLE(f, S, v) == Cardinality({i \in S : f[i] <= v})

CountLT(f, S, v) == Cardinality({i \in S : f[i] < v})

\* the k-th smallest value (k = 1 .. |S|)
Kth(f, S, k) ==
    CHOOSE v \in ValuesOf(f, S) : CountLT(f, S, v) < k /\ CountLE(f, S, v) >= k

\* twice the median: the middle value counted twice, or the two middle values
Median2(f, S) ==
    LET n == Cardinality(S)
    IN  IF n % 2 = 1
        THEN 2 * Kth(f, S, (n + 1) \div 2)
        ELSE Kth(f, S, n \div 2) + Kth(f, S, n \div 2 + 1)

\* the median, rounded down to the model's unit
MedianOf(f, S) == IF S = {} THEN NaN ELSE Median2(f, S) \div 2

RECURSIVE SumOver(_, _, _)
SumOver(f, S, D) ==
    IF D = {} THEN 0
    ELSE LET v == CHOOSE x \in D : TRUE
         IN  v * Cardinality({i \in S : f[i] = v}) + SumOver(f, S, D \ {v})

RECURSIVE SumSqOver(_, _, _)
SumSqOver(f, S, D) ==
    IF D = {} THEN 0
    ELSE LET v == CHOOSE x \in D : TRUE
         IN  v * v * Cardinality({i \in S : f[i] = v}) + SumSqOver(f, S, D \ {v})

SumOf(f, S) == SumOver(f, S, ValuesOf(f, S))

SumSqOf(f, S) == SumSqOver(f, S, ValuesOf(f, S))

\* n^2 times the population variance
VarN2(f, S) == Cardinality(S) * SumSqOf(f, S) - SumOf(f, S) * SumOf(f, S)


(***************************************************************************)
(* Robust statistics kernel: astropy.stats.sigma_clipped_stats with        *)
(* cenfunc = median, stdfunc = std.  Non-finite values are dropped first;  *)
(* each iteration rejects the values farther than sigma * std from the     *)
(* median; it stops when nothing is rejected or after maxiters iterations  *)
(* (maxiters = None is given as -1).  |x - med| > sigma * std is decided   *)
(* exactly on integers: n^2 (2x - 2 med)^2 > 4 sigma^2 n^2 var.            *)
(***************************************************************************)
ClipKeep(f, S, sigma) ==
    LET Within(n, m2, v) ==
            {i \in S : n * n * (2 * f[i] - m2) * (2 * f[i] - m2) <= 4 * sigma * sigma * v}
    IN  Within(Cardinality(S), Median2(f, S), VarN2(f, S))

RECURSIVE SigmaClip(_, _, _, _)
SigmaClip(f, S, sigma, iters) ==
    IF S = {} \/ iters = 0 THEN S
    ELSE LET Iterate(K) == IF K = S THEN S ELSE SigmaClip(f, K, sigma, iters - 1)
         IN  Iterate(ClipKeep(f, S, sigma))

FiniteIn(f, S) == {i \in S : IsFinite(f[i])}

\* sigma_clipped_stats(...)[1] of the family f restricted to S
ClippedMedian(f, S, sigma, iters) ==
    MedianOf(f, SigmaClip(f, FiniteIn(f, S), sigma, iters))

\* np.nanmedian of the family f restricted to S
NanMedian(f, S) == MedianOf(f, FiniteIn(f, S))

\* a 2-D array as a family over its cells
AsFamily(a) == [p \in Cells(a) |-> a[p[1]][p[2]]]

\* cells of a not excluded by the mask m (nonzero = excluded)
Unmasked(a, m) == {p \in Cells(a) : m[p[1]][p[2]] = 0}

\* sigma_clipped_stats(a, mask=m, sigma, maxiters)[1] over the whole array
sigma_clipped_median(a, m, sigma, iters) ==
    ClippedMedian(AsFamily(a), Unmasked(a, m), sigma, iters)

\* sigma_clipped_stats(a, mask=m, sigma, maxiters, axis=1)[1] : one value per row
sigma_clipped_median_rows(a, m, sigma, iters) ==
    Vec([r \in 1 .. Len(a) |->
        ClippedMedian(a[r], {c \in 1 .. Len(a[r]) : m[r][c] = 0}, sigma, iters)])

\* sigma_clipped_stats(a, mask=m, sigma, maxiters, axis=0)[1] : one value per column
sigma_clipped_median_cols(a, m, sigma, iters) ==
    Vec([c \in 1 .. NColsOf(a) |->
        ClippedMedian([r \in 1 .. Len(a) |-> a[r][c]],
                      {r \in 1 .. Len(a) : m[r][c] = 0}, sigma, iters)])

\* np.nanmedian(a) over the whole array
nanmedian_all(a) == NanMedian(AsFamily(a), Cells(a))

\* np.nanmedian(v) of a vector
nanmedian_vec(v) == NanMedian(v, DOMAIN v)

\* np.ma.median(np.ma.array(a, mask=m), axis=1), masked results set to NaN
ma_median_rows(a, m) ==
    Vec([r \in 1 .. Len(a) |->
        LET S == {c \in 1 .. Len(a[r]) : m[r][c] = 0}
        IN  IF S = {} THEN NaN
            ELSE IF \E c \in S : IsNaN(a[r][c]) THEN NaN
            ELSE MedianOf(a[r], S)])

\* np.ma.median(np.ma.array(a, mask=m), axis=0), masked results set to NaN
ma_median_cols(a, m) ==
    Vec([c \in 1 .. NColsOf(a) |->
        LET S == {r \in 1 .. Len(a) : m[r][c] = 0}
            col == [r \in 1 .. Len(a) |-> a[r][c]]
        IN  IF S = {} THEN NaN
            ELSE IF \E r \in S : IsNaN(col[r]) THEN NaN
            ELSE MedianOf(col, S)])

(***************************************************************************)
(* scipy.ndimage.median_filter(v, size, mode="reflect") on a vector: the   *)
(* window of `size` samples starts size // 2 before the sample, the input  *)
(* is extended by reflection about its edges (d c b a | a b c d | d c b a) *)
(* and the value of rank size // 2 (0-based) of the window is returned.    *)
(***************************************************************************)
Reflect(n, k) ==
    LET m == k % (2 * n)
    IN  IF m < n THEN m ELSE 2 * n - 1 - m

median_filter(v, size) ==
    LET n == Len(v)
    IN  Vec([i \in 1 .. n |->
            LET w == [j \in 1 .. size |-> v[Reflect(n, (i - 1) - (size \div 2) + (j - 1)) + 1]]
            IN  Kth(w, 1 .. size, size \div 2 + 1)])


(***************************************************************************)
(* Quality flags.  get_dq_bit_mask casts the flags to uint8 and tests them *)
(* against DO_NOT_USE + NON_SCIENCE, itself cast to uint8; the result has  *)
(* dtype uint8 (0 good, 1 bad).                                            *)
(***************************************************************************)
DO_NOT_USE == 1

NON_SCIENCE == 512

RECURSIVE BitAnd(_, _)
BitAnd(x, y) ==
    IF x = 0 \/ y = 0 THEN 0
    ELSE (x % 2) * (y % 2) + 2 * BitAnd(x \div 2, y \div 2)

AsUint8(x) == x % 256

get_dq_bit_mask(dq) ==
    Arr([r \in 1 .. Len(dq) |-> [c \in 1 .. Len(dq[r]) |->
        IF BitAnd(AsUint8(dq[r][c]), AsUint8(DO_NOT_USE + NON_SCIENCE)) # 0 THEN 1 ELSE 0]])

\* get_dq_mask: uint8 | bool | bool | bool is a uint8 array of 0 and 1
get_dq_mask(data, err, dq) ==
    LET bits == get_dq_bit_mask(dq)
    IN  Arr([r \in 1 .. Len(data) |-> [c \in 1 .. Len(data[r]) |->
            IF bits[r][c] # 0 \/ ~IsFinite(data[r][c]) \/ ~IsFinite(err[r][c])
                \/ data[r][c] = 0
            THEN 1 ELSE 0]])

\* m1 | m2 of two masks
MaskOr(m1, m2) ==
    Arr([r \in 1 .. Len(m1) |-> [c \in 1 .. Len(m1[r]) |->
        IF m1[r][c] # 0 \/ m2[r][c] # 0 THEN 1 ELSE 0]])

(***************************************************************************)
(* numpy index assignment a[idx] = v.                                      *)
(*  - idx of dtype bool selects the cells where idx is true;               *)
(*  - idx of an integer dtype (get_dq_mask returns uint8) is an array of   *)
(*    row numbers: every row whose 0-based number occurs in idx is set.    *)
(***************************************************************************)
IntIndexRows(idx) == {idx[p[1]][p[2]] + 1 : p \in Cells(idx)}

(***************************************************************************)
(* Source/defect mask builder (utils.make_source_mask):                    *)
(*   threshold = clipped mean + nsigma * clipped std   (detect_threshold)  *)
(*   segments  = 8-connected groups of at least npixels pixels > threshold *)
(*   mask      = segments dilated by a dilate_size x dilate_size square,   *)
(*               all false when nothing is detected.                       *)
(***************************************************************************)
AboveThreshold(a, m, nsigma, iters) ==
    LET f == AsFamily(a)
        Above(n, s, v) ==
            IF n = 0 THEN {}
            ELSE {p \in Cells(a) :
                    /\ IsFinite(f[p])
                    /\ n * f[p] - s > 0
                    /\ (n * f[p] - s) * (n * f[p] - s) > nsigma * nsigma * v}
        Stats(K) == Above(Cardinality(K), SumOf(f, K), VarN2(f, K))
    IN  Stats(SigmaClip(f, FiniteIn(f, Unmasked(a, m)), nsigma, iters))

Adjacent(p, q) == p # q /\ Abs(p[1] - q[1]) <= 1 /\ Abs(p[2] - q[2]) <= 1

RECURSIVE Grow(_, _)
Grow(C, A) ==
    LET N == C \cup {q \in A : \E p \in C : Adjacent(p, q)}
    IN  IF N = C THEN C ELSE Grow(N, A)

RECURSIVE Segments(_, _)
Segments(A, npixels) ==
    IF A = {} THEN {}
    ELSE LET seed == CHOOSE p \in A : TRUE
             C    == Grow({seed}, A)
         IN  (IF Cardinality(C) >= npixels THEN C ELSE {}) \cup Segments(A \ C, npixels)

detect_sources(a, m, nsigma, npixels, iters) ==
    Segments(AboveThreshold(a, m, nsigma, iters), npixels)

Dilate(a, D, size) ==
    LET h == size \div 2
    IN  Arr([r \in 1 .. Len(a) |-> [c \in 1 .. Len(a[r]) |->
            IF \E q \in D : Abs(q[1] - r) <= h /\ Abs(q[2] - c) <= h THEN 1 ELSE 0]])

NoMask(a) == ZerosLike(a)

make_source_mask(a, m, nsigma, npixels, dilate_size, sigclip_iters) ==
    LET MaskOf(D) == IF D = {} THEN ZerosLike(a) ELSE Dilate(a, D, dilate_size)
    IN  MaskOf(detect_sources(a, m, nsigma, npixels, sigclip_iters))


(***************************************************************************)
(* Detector geometry and defaults fixed in the source.                     *)
(***************************************************************************)
\* width of the comparison strips of level_data
LevelStrip == 20

\* reference-pixel border cut off by data[4:-4, 4:-4]
RefTrim == 4

\* hard-coded column range of the last amplifier in the trimmed array
Quad3Lo == 1532

Quad3Hi == 2040

\* sigma, npixels, max_iters of SingleTileDestripeStep.__init__
DefaultSigma == 3

DefaultNpixels == 3

DefaultMaxIters == 20

\* sigclip_iters default of make_source_mask
DefaultSigclipIters == 5

\* maxiters=None of sigma_clipped_stats: iterate until nothing is rejected
NoIterLimit == -1

NQuadrants == 4

\* a[4:-4, 4:-4]
Trim(a) == ColSlice(RowSlice(a, RefTrim, -RefTrim), RefTrim, -RefTrim)

\* the trimmed model handed back as it is, without the reference border
EmbedTrimmed_NoBorder(full, inner) == inner

\* full[4:-4, 4:-4] = inner   (inner has the shape of the target slice)
EmbedTrimmed(full, inner) ==
    LET r0 == PyLo(NRowsOf(full), RefTrim)
        r1 == PyHi(NRowsOf(full), -RefTrim)
        c0 == PyLo(NColsOf(full), RefTrim)
        c1 == PyHi(NColsOf(full), -RefTrim)
    IN  Arr([r \in 1 .. Len(full) |-> [c \in 1 .. Len(full[r]) |->
            IF r > r0 /\ r <= r1 /\ c > c0 /\ c <= c1
            THEN inner[r - r0][c - c0] ELSE full[r][c]]])

\* a[:, start:stop] += v[:, np.newaxis]
AddRowVecToCols(a, start, stop, v) ==
    LET c0 == PyLo(NColsOf(a), start)
        c1 == PyHi(NColsOf(a), stop)
    IN  Arr([r \in 1 .. Len(a) |-> [c \in 1 .. Len(a[r]) |->
            IF c > c0 /\ c <= c1 THEN Add(a[r][c], v[r]) ELSE a[r][c]]])

\* a[:, start:stop] += v[np.newaxis, :]   (v indexed inside the slice)
AddColVecToCols(a, start, stop, v) ==
    LET c0 == PyLo(NColsOf(a), start)
        c1 == PyHi(NColsOf(a), stop)
    IN  Arr([r \in 1 .. Len(a) |-> [c \in 1 .. Len(a[r]) |->
            IF c > c0 /\ c <= c1 THEN Add(a[r][c], v[c - c0]) ELSE a[r][c]]])

\* a[:, start:stop] += s
AddScalarToCols(a, start, stop, s) ==
    LET c0 == PyLo(NColsOf(a), start)
        c1 == PyHi(NColsOf(a), stop)
    IN  Arr([r \in 1 .. Len(a) |-> [c \in 1 .. Len(a[r]) |->
            IF c > c0 /\ c <= c1 THEN Add(a[r][c], s) ELSE a[r][c]]])

\* a[:, start:stop] = b
SetCols(a, start, stop, b) ==
    LET c0 == PyLo(NColsOf(a), start)
        c1 == PyHi(NColsOf(a), stop)
    IN  Arr([r \in 1 .. Len(a) |-> [c \in 1 .. Len(a[r]) |->
            IF c > c0 /\ c <= c1 THEN b[r][c - c0] ELSE a[r][c]]])

\* a[a == 0] = np.nan
ZerosToNaN(a) ==
    Arr([r \in 1 .. Len(a) |-> [c \in 1 .. Len(a[r]) |->
        IF a[r][c] = 0 THEN NaN ELSE a[r][c]]])

\* v[~np.isfinite(v)] = x
VecNonFiniteTo(v, x) == Vec([i \in 1 .. Len(v) |-> IF IsFinite(v[i]) THEN v[i] ELSE x])

VecSub(u, v) == Vec([i \in 1 .. Len(u) |-> Sub(u[i], v[i])])

VecSubScalar(u, s) == Vec([i \in 1 .. Len(u) |-> Sub(u[i], s)])

(***************************************************************************)
(* Quadrant leveler: SingleTileDestripeStep.level_data.                    *)
(* quad_1 and quad_2 are views of the copy `data`, and dq_1, dq_2 are      *)
(* slices of the uint8 mask of get_dq_mask, so quad_1[dq_1] = np.nan is an *)
(* integer-array assignment into `data`.                                   *)
(***************************************************************************)
\* 0-based [lo, hi) column range of data[:, i*qs:(i+1)*qs][:, qs-20:]
Strip1Lo(qs, i) == i * qs + PyLo(qs, qs - LevelStrip)

Strip1Hi(qs, i) == (i + 1) * qs

\* 0-based [lo, hi) column range of data[:, (i+1)*qs:(i+2)*qs][:, :20]
Strip2Lo(qs, i) == (i + 1) * qs

Strip2Hi(qs, i) == (i + 1) * qs + PyHi(qs, LevelStrip)

\* view[idx] = np.nan, for the view data[:, lo:hi] and idx = dq_mask[:, lo:hi]
LevelMaskStrip(data, dq_mask, lo, hi) ==
    LET rows == IntIndexRows(ColSlice(dq_mask, lo, hi))
    IN  Arr([r \in 1 .. Len(data) |-> [c \in 1 .. Len(data[r]) |->
            IF r \in rows /\ c > lo /\ c <= hi THEN NaN ELSE data[r][c]]])

\* the shift applied to quadrant i + 1, measured on the masked strips
LevelDelta(data, qs, i) ==
    LET med_1 == Vec([r \in 1 .. Len(data) |->
                    NanMedian(data[r], (Strip1Lo(qs, i) + 1) .. Strip1Hi(qs, i))])
        med_2 == Vec([r \in 1 .. Len(data) |->
                    NanMedian(data[r], (Strip2Lo(qs, i) + 1) .. Strip2Hi(qs, i))])
        diff  == VecSub(med_1, med_2)
    IN  ClippedMedian(diff, DOMAIN diff, DefaultSigma, NoIterLimit)

\* every shift measured on the frame as it came in, none on the already
\* shifted left neighbour
level_data_Uncompounded(data, err, dq) ==
    LET qs      == NColsOf(data) \div NQuadrants
        dq_mask == get_dq_mask(data, err, dq)
        masked(d, i) ==
            LevelMaskStrip(LevelMaskStrip(d, dq_mask, Strip1Lo(qs, i), Strip1Hi(qs, i)),
                           dq_mask, Strip2Lo(qs, i), Strip2Hi(qs, i))
        m == masked(masked(masked(data, 0), 1), 2)
    IN  AddScalarToCols(AddScalarToCols(AddScalarToCols(m,
            qs, 2 * qs, LevelDelta(m, qs, 0)),
            2 * qs, 3 * qs, LevelDelta(m, qs, 1)),
            3 * qs, 4 * qs, LevelDelta(m, qs, 2))

LevelStep(data, dq_mask, qs, i) ==
    LET d1 == LevelMaskStrip(data, dq_mask, Strip1Lo(qs, i), Strip1Hi(qs, i))
        d2 == LevelMaskStrip(d1, dq_mask, Strip2Lo(qs, i), Strip2Hi(qs, i))
    IN  AddScalarToCols(d2, (i + 1) * qs, (i + 2) * qs, LevelDelta(d2, qs, i))

level_data(data, err, dq) ==
    LET qs      == NColsOf(data) \div NQuadrants
        dq_mask == get_dq_mask(data, err, dq)
    IN  LevelStep(LevelStep(LevelStep(data, dq_mask, qs, 0), dq_mask, qs, 1), dq_mask, qs, 2)


(***************************************************************************)
(* NircamDestriper.level_data (legacy): one median per strip, either the   *)
(* plain nanmedian or the sigma-clipped median outside the source mask;    *)
(* the array is shifted in place.                                          *)
(***************************************************************************)
StripCells(data, lo, hi) ==
    {p \in Cells(data) : p[2] > lo /\ p[2] <= hi}

LegacyStripMedian(data, mask, lo, hi, use_sigma_clip) ==
    IF use_sigma_clip
    THEN ClippedMedian(AsFamily(data),
                       {p \in StripCells(data, lo, hi) : mask[p[1]][p[2]] = 0},
                       DefaultSigma, DefaultMaxIters)
    ELSE NanMedian(AsFamily(data), StripCells(data, lo, hi))

LegacyLevelStep(data, mask, qs, i, use_sigma_clip) ==
    LET med_1 == LegacyStripMedian(data, mask, Strip1Lo(qs, i), Strip1Hi(qs, i),
                                   use_sigma_clip)
        med_2 == LegacyStripMedian(data, mask, Strip2Lo(qs, i), Strip2Hi(qs, i),
                                   use_sigma_clip)
    IN  AddScalarToCols(data, (i + 1) * qs, (i + 2) * qs, Sub(med_1, med_2))

legacy_level_data(data, use_sigma_clip, dilate_size) ==
    LET qs   == NColsOf(data) \div NQuadrants
        mask == make_source_mask(data, NoMask(data), DefaultSigma, DefaultNpixels,
                                 dilate_size, DefaultMaxIters)
    IN  LegacyLevelStep(LegacyLevelStep(LegacyLevelStep(data, mask, qs, 0, use_sigma_clip),
                        mask, qs, 1, use_sigma_clip), mask, qs, 2, use_sigma_clip)

(***************************************************************************)
(* The stages of SingleTileDestripeStep.  Each takes the science array of  *)
(* the frame (im.data, after leveling), its error and flag arrays, the     *)
(* noise model accumulated so far, and the step parameters, and returns a  *)
(* noise model.  filter_diffuse is off.                                    *)
(***************************************************************************)
\* the model of the earlier stages is not taken off
StageInput_PrevIgnored(im_data, prev_noise_model) == ZerosToNaN(im_data)

\* im_data = deepcopy(im.data); im_data[im_data == 0] = nan; im_data -= prev
StageInput(im_data, prev_noise_model) == ArrSub(ZerosToNaN(im_data), prev_noise_model)

\* mask = make_source_mask(...) | get_dq_mask(...)
StageMask(data, err, dq, dilate_size, sigclip_iters) ==
    MaskOr(make_source_mask(data, NoMask(data), DefaultSigma, DefaultNpixels,
                            dilate_size, sigclip_iters),
           get_dq_mask(data, err, dq))

\* the loop over median_filter_scales of run_vertical_subtraction, rows all
\* alike: returns the per-column noise accumulated over the scales
RECURSIVE VerticalScales(_, _, _, _)
VerticalScales(data, mask, scales, acc) ==
    IF scales = <<>> THEN acc
    ELSE LET med   == VecNonFiniteTo(ma_median_cols(data, mask), 0)
             noise == VecSub(med, median_filter(med, Head(scales)))
         IN  VerticalScales(ArrSubColVec(data, noise), mask, Tail(scales),
                            Vec([c \in 1 .. Len(acc) |-> Add(acc[c], noise[c])]))

run_vertical_subtraction(im_data, err, dq, prev_noise_model, is_subarray, scales, dilate_size) ==
    LET data0 == StageInput(im_data, prev_noise_model)
        data  == IF is_subarray THEN data0 ELSE Trim(data0)
        Embedded(centred) ==
            IF is_subarray THEN ArrAdd(ZerosLike(data0), centred)
            ELSE EmbedTrimmed(ZerosLike(data0), centred)
        Centred(vertical_noise_model) ==
            Embedded(ArrSubScalar(vertical_noise_model, nanmedian_all(vertical_noise_model)))
        Model(mask0) ==
            Centred(ArrAddColVec(ZerosLike(data),
                        VerticalScales(data, IF is_subarray THEN mask0 ELSE Trim(mask0), scales,
                                       Vec([c \in 1 .. NColsOf(data) |-> 0]))))
    IN  Model(StageMask(data0, err, dq, dilate_size, DefaultMaxIters))

\* one quadrant of run_row_median
RowMedianQuadrant(model, data, mask, qs, i) ==
    LET Added(median_quadrants) ==
            AddScalarToCols(AddRowVecToCols(model, i * qs, (i + 1) * qs, median_quadrants),
                            i * qs, (i + 1) * qs, Sub(0, nanmedian_vec(median_quadrants)))
    IN  Added(sigma_clipped_median_rows(ColSlice(data, i * qs, (i + 1) * qs),
                                        ColSlice(mask, i * qs, (i + 1) * qs),
                                        DefaultSigma, DefaultMaxIters))

run_row_median(im_data, err, dq, prev_noise_model, quadrants, dilate_size) ==
    LET data == StageInput(im_data, prev_noise_model)
        qs   == NColsOf(data) \div NQuadrants
        zero == ZerosLike(data)
        Whole(median_arr) ==
            ArrSubScalar(ArrAddRowVec(zero, median_arr), nanmedian_vec(median_arr))
        Model(mask) ==
            IF quadrants
            THEN RowMedianQuadrant(RowMedianQuadrant(RowMedianQuadrant(RowMedianQuadrant(
                     zero, data, mask, qs, 0), data, mask, qs, 1), data, mask, qs, 2),
                     data, mask, qs, 3)
            ELSE Whole(sigma_clipped_median_rows(data, mask, DefaultSigma, DefaultMaxIters))
    IN  Model(StageMask(data, err, dq, dilate_size, DefaultSigclipIters))

\* the loop over median_filter_scales of run_median_filter on one block of
\* columns; fill is what a non-finite row median is replaced by
RECURSIVE MedianFilterScales(_, _, _, _, _)
MedianFilterScales(data, mask, scales, perQuadrant, acc) ==
    IF scales = <<>> THEN acc
    ELSE LET raw   == ma_median_rows(data, mask)
             med   == VecNonFiniteTo(raw, IF perQuadrant THEN nanmedian_vec(raw) ELSE 0)
             noise == VecSub(med, median_filter(med, Head(scales)))
         IN  MedianFilterScales(ArrSubRowVec(data, noise), mask, Tail(scales), perQuadrant,
                                Vec([r \in 1 .. Len(acc) |-> Add(acc[r], noise[r])]))

MedianFilterQuadrant(model, data, mask, scales, qs, i) ==
    LET noise == MedianFilterScales(ColSlice(data, i * qs, (i + 1) * qs),
                                    ColSlice(mask, i * qs, (i + 1) * qs),
                                    scales, TRUE, Vec([r \in 1 .. Len(data) |-> 0]))
    IN  AddRowVecToCols(model, i * qs, (i + 1) * qs, noise)

run_median_filter(im_data, err, dq, prev_noise_model, quadrants, scales, dilate_size) ==
    LET data == StageInput(im_data, prev_noise_model)
        qs   == NColsOf(data) \div NQuadrants
        zero == ZerosLike(data)
        Model(mask) ==
            IF quadrants
            THEN MedianFilterQuadrant(MedianFilterQuadrant(MedianFilterQuadrant(
                     MedianFilterQuadrant(zero, data, mask, scales, qs, 0),
                     data, mask, scales, qs, 1), data, mask, scales, qs, 2),
                     data, mask, scales, qs, 3)
            ELSE ArrAddRowVec(zero, MedianFilterScales(data, mask, scales, FALSE,
                                                       Vec([r \in 1 .. Len(data) |-> 0])))
    IN  Model(StageMask(data, err, dq, dilate_size, DefaultSigclipIters))


\* the quadrant starts where it starts in the untrimmed array
QuadSliceLo_Untrimmed(qs, i, is_subarray) == i * qs

\* idx_slice of quadrant i in the trimmed array (run_remstriping, run_pca_denoise)
QuadSliceLo(qs, i, is_subarray) ==
    IF is_subarray THEN i * qs
    ELSE IF i = 0 THEN 0
    ELSE IF i = 3 THEN Quad3Lo
    ELSE i * qs - RefTrim

QuadSliceHi(qs, i, is_subarray) ==
    IF is_subarray THEN (i + 1) * qs
    ELSE IF i = 0 THEN qs - RefTrim
    ELSE IF i = 3 THEN Quad3Hi
    ELSE (i + 1) * qs - RefTrim

\* one quadrant of run_remstriping: row stripes, then column stripes of the rest
RemstripeQuadrant(model, data, mask, qs, i, is_subarray) ==
    LET lo == QuadSliceLo(qs, i, is_subarray)
        hi == QuadSliceHi(qs, i, is_subarray)
        data_quadrants == ColSlice(data, lo, hi)
        mask_quadrants == ColSlice(mask, lo, hi)
        Stripes(median_quadrants) ==
            VecSubScalar(median_quadrants, nanmedian_vec(median_quadrants))
        AddY(with_x, y_stripes) == AddColVecToCols(with_x, lo, hi, y_stripes)
        AddX(x_stripes) ==
            AddY(AddRowVecToCols(model, lo, hi, x_stripes),
                 Stripes(sigma_clipped_median_cols(ArrSubRowVec(data_quadrants, x_stripes),
                                                   mask_quadrants,
                                                   DefaultSigma, DefaultMaxIters)))
    IN  AddX(Stripes(sigma_clipped_median_rows(data_quadrants, mask_quadrants,
                                               DefaultSigma, DefaultMaxIters)))

run_remstriping(im_data, err, dq, prev_noise_model, is_subarray, quadrants, dilate_size) ==
    LET data0 == StageInput(im_data, prev_noise_model)
        qs    == NColsOf(data0) \div NQuadrants
        data  == IF is_subarray THEN data0 ELSE Trim(data0)
        zero  == ZerosLike(data)
        Embedded(trimmed_noise_model) ==
            IF is_subarray THEN trimmed_noise_model
            ELSE EmbedTrimmed(ZerosLike(data0), trimmed_noise_model)
        Whole(median_arr) ==
            ArrSubScalar(ArrAddRowVec(zero, median_arr), nanmedian_vec(median_arr))
        Model(mask) ==
            IF quadrants
            THEN RemstripeQuadrant(RemstripeQuadrant(RemstripeQuadrant(RemstripeQuadrant(
                     zero, data, mask, qs, 0, is_subarray), data, mask, qs, 1, is_subarray),
                     data, mask, qs, 2, is_subarray), data, mask, qs, 3, is_subarray)
            ELSE Whole(sigma_clipped_median_rows(data, mask, DefaultSigma, DefaultMaxIters))
        Trimmed(mask0) == Embedded(Model(IF is_subarray THEN mask0 ELSE Trim(mask0)))
    IN  Trimmed(StageMask(data0, err, dq, dilate_size, DefaultMaxIters))

(***************************************************************************)
(* run_pca_denoise.  The eigen-system fit (vw.run_robust_pca) and the      *)
(* gappy reconstruction live outside the repository; what they return is   *)
(* an argument here, `recon`: one reconstructed value per pixel of the     *)
(* block handed to reconstruct_pca.  Everything around it is the source's: *)
(* the trim, the per-quadrant column blocks, the NaN border, the final     *)
(* centring on the sigma-clipped median outside original_mask.             *)
(***************************************************************************)
PcaQuadrant(noise_model_arr, recon, qs, i) ==
    SetCols(noise_model_arr, QuadSliceLo(qs, i, FALSE), QuadSliceHi(qs, i, FALSE),
            ColSlice(recon, QuadSliceLo(qs, i, FALSE), QuadSliceHi(qs, i, FALSE)))

run_pca_denoise(im_data, err, dq, prev_noise_model, is_subarray, quadrants, dilate_size, recon) ==
    LET data0 == StageInput(im_data, prev_noise_model)
        original_mask == StageMask(data0, err, dq, dilate_size, DefaultMaxIters)
        qs    == NColsOf(data0) \div NQuadrants
        data  == IF is_subarray THEN data0 ELSE Trim(data0)
        zero  == ZerosLike(data)
        noise_model_arr ==
            PcaQuadrant(PcaQuadrant(PcaQuadrant(PcaQuadrant(zero, recon, qs, 0),
                        recon, qs, 1), recon, qs, 2), recon, qs, 3)
        full_noise_model ==
            IF quadrants THEN EmbedTrimmed(FullLike(data0, NaN), noise_model_arr)
            ELSE IF is_subarray THEN recon
            ELSE EmbedTrimmed(FullLike(data0, NaN), recon)
        Centred(model) ==
            ArrSubScalar(model, sigma_clipped_median(model, original_mask,
                                                     DefaultSigma, DefaultMaxIters))
    IN  Centred(full_noise_model)


(***************************************************************************)
(* Input frames.  A frame is a record [data, err, dq, subarray].  The      *)
(* frames explored have a flat background, one constant offset per         *)
(* amplifier quadrant, an optional row-stripe pattern, and at most one     *)
(* special pixel: exactly zero, NaN, or flagged DO_NOT_USE.                *)
(***************************************************************************)
NRows == 10

NCols == 12

Background == 10

MaxOffset == 3

StripeAmp == 2

OffsetSets == {<<0, 0, MaxOffset, 0>>, <<0, 2, 0, MaxOffset>>}

StripeKinds == {"flat", "alternate"}

PixelKinds == {"zero", "nan", "flagged"}

\* one pixel in the top rows (quadrant 1), one in the science interior (quadrant 2)
PixelPositions == {<<2, 5>>, <<6, 7>>}

QuadrantOf(c) == Min((c - 1) \div (NCols \div NQuadrants), NQuadrants - 1)

StripeOf(kind, r) ==
    IF kind = "alternate" /\ r % 2 = 0 THEN StripeAmp
    ELSE 0

FrameOf(off, stripe, pixel, pos, subarray) ==
    [data |-> Arr([r \in 1 .. NRows |-> [c \in 1 .. NCols |->
                 IF pos = <<r, c>> /\ pixel = "zero" THEN 0
                 ELSE IF pos = <<r, c>> /\ pixel = "nan" THEN NaN
                 ELSE Background + off[QuadrantOf(c) + 1] + StripeOf(stripe, r)]]),
     err  |-> Full(NRows, NCols, 1),
     dq   |-> Arr([r \in 1 .. NRows |-> [c \in 1 .. NCols |->
                 IF pos = <<r, c>> /\ pixel = "flagged" THEN DO_NOT_USE ELSE 0]]),
     subarray |-> subarray]

Frames ==
    {FrameOf(off, stripe, "none", <<0, 0>>, sub) :
        off \in OffsetSets, stripe \in StripeKinds, sub \in BOOLEAN}
    \cup
    {FrameOf(x[1], x[2], x[3], x[4], x[5]) :
        x \in OffsetSets \X StripeKinds \X PixelKinds \X PixelPositions \X BOOLEAN}

(***************************************************************************)
(* Step configuration (SingleTileDestripeStep.__init__).                   *)
(***************************************************************************)
DESTRIPING_METHODS == {"row_median", "median_filter", "remstripe", "pca"}

ScaleLists == {<<3, 5>>}

DilateSize == 3

Configs ==
    [destriping_method : DESTRIPING_METHODS, quadrants : BOOLEAN,
     vertical_subtraction : BOOLEAN, median_filter_scales : ScaleLists,
     dilate_size : {DilateSize}]

\* what the external PCA reconstruction may hand back: a level plus a
\* row pattern, one value per pixel of the block
PcaLevels == {0, 2}

PcaAmps == {0, 1}

PcaRecon(like, level, amp) ==
    Arr([r \in 1 .. Len(like) |-> [c \in 1 .. Len(like[r]) |-> level + amp * (r % 2)]])


(***************************************************************************)
(* State of one run of SingleTileDestripeStep.parallel_destripe.           *)
(***************************************************************************)
VARIABLES
    file,               \* the exposure on disk, as read by datamodels.open
    step,               \* the step object's parameters (self.*)
    pc,                 \* position inside parallel_destripe
    im_data,            \* im.data
    full_noise_model,   \* the accumulated noise model
    stage,              \* the stage that ran last
    stage_model,        \* the noise model that stage returned
    stage_mask,         \* the mask (source mask | dq mask) that stage built
    out_data            \* the science array of the written file, <<>> if none

pixvars == <<file, step, pc, im_data, full_noise_model, stage, stage_model,
             stage_mask, out_data>>

(***************************************************************************)
(* State of the eigen-system cache of run_pca_denoise: the pickle files of *)
(* one exposure in the pca directory, and the loop over the quadrants.     *)
(***************************************************************************)
VARIABLES
    pca_impl,           \* "single_tile" (SingleTileDestripeStep) or "legacy" (NircamDestriper)
    pca_file,           \* the pca_file argument: "pkl", or "None"
    pca_quadrants,      \* the quadrants flag of the call
    pca_disk,           \* cache key -> stored eigen-system, or "absent"
    pca_pc,             \* "idle", "called", "returned"
    pca_i,              \* the loop variable i of the quadrant loop
    eigen_system_dict,  \* quadrant -> the eigen-system used to reconstruct it
    fit_ran,            \* the quadrants fit_robust_pca was called for in this call
    key_before,         \* quadrant -> what its own key held when the loop reached it
    pca_calls           \* number of calls made for this exposure

cachevars == <<pca_impl, pca_file, pca_quadrants, pca_disk, pca_pc, pca_i,
               eigen_system_dict, fit_ran, key_before, pca_calls>>

IdleCache ==
    /\ pca_impl = "none"
    /\ pca_file = "None"
    /\ pca_quadrants = FALSE
    /\ pca_disk = <<>>
    /\ pca_pc = "idle"
    /\ pca_i = 0
    /\ eigen_system_dict = <<>>
    /\ fit_ran = {}
    /\ key_before = <<>>
    /\ pca_calls = 0

(***************************************************************************)
(* State of one batch: do_step of SingleTileDestripeStep or of             *)
(* MultiTileDestripeStep, its worker pool, and the output directory.       *)
(***************************************************************************)
VARIABLES
    batch,              \* the step object: [mode, overwrite, procs]
    fault,              \* the worker call that raises: [at, phase], at = 0 for none
    step_pc,            \* position inside do_step
    pending,            \* inputs of the pool's task queue, not yet handed out
    running,            \* inputs being processed by a worker
    outq,               \* finished results the parent has not yet iterated over
    finish_order,       \* inputs of the current pool in the order they finished
    successes,          \* the list run_step builds
    files_reproj,       \* the lists weighted_reproject_image builds
    data_reproj,
    weight_reproj,
    results,            \* the list run_multi_tile_destripe builds
    out_dir,            \* [exists, files, marker]: the output directory on disk
    completed,          \* inputs whose destriping worker has returned in this run
    failed,             \* inputs whose worker has raised in this run
    runs                \* number of do_step calls so far

poolvars == <<batch, fault, step_pc, pending, running, outq, finish_order, successes,
              files_reproj, data_reproj, weight_reproj, results, out_dir, completed,
              failed, runs>>

IdlePool ==
    /\ batch = <<>>
    /\ fault = <<>>
    /\ step_pc = "idle"
    /\ pending = <<>>
    /\ running = {}
    /\ outq = <<>>
    /\ finish_order = <<>>
    /\ successes = <<>>
    /\ files_reproj = <<>>
    /\ data_reproj = <<>>
    /\ weight_reproj = <<>>
    /\ results = <<>>
    /\ out_dir = <<>>
    /\ completed = {}
    /\ failed = {}
    /\ runs = 0

(***************************************************************************)
(* State of the destriping workers of the multi-tile step: the objects the *)
(* module globals data_reproj and weight_reproj refer to, as each forked   *)
(* worker process sees them.                                               *)
(***************************************************************************)
VARIABLES
    heap,               \* worker -> (reference -> ReprojectedArraySubset object)
    forked_heap,        \* the objects of the parent when the pool was forked
    subset_step,        \* the step object: [min_area_frac, weight_type], the fraction as <<num, den>>
    subset_out          \* input -> <<what create_subset_reproj_image returned for
                        \* it, the siblings that went into the average>>, or None

subsetvars == <<heap, forked_heap, subset_step, subset_out>>

IdleSubset ==
    /\ heap = <<>>
    /\ forked_heap = <<>>
    /\ subset_step = <<>>
    /\ subset_out = <<>>

(***************************************************************************)
(* State of one call of a constructor or of parse_fits_to_table.           *)
(***************************************************************************)
VARIABLES
    conf_call,          \* the callable and its arguments
    conf_pc,            \* "called", "raised", "constructed", "ran", "returned"
    opened,             \* the files opened so far, in order
    conf_return         \* the value returned, <<>> if none

confvars == <<conf_call, conf_pc, opened, conf_return>>

IdleConf ==
    /\ conf_call = <<>>
    /\ conf_pc = "idle"
    /\ opened = <<>>
    /\ conf_return = <<>>

(***************************************************************************)
(* State of the PCA denoiser of one block (the whole-frame branch of       *)
(* run_pca_denoise): the arrays it works on are objects, held by identity. *)
(***************************************************************************)
VARIABLES
    pca_unit,           \* [impl, cached, block]: implementation, cache file present, input
    pca_state,          \* "unfit", "fitting", "fitted", "reconstructed"
    pca_origin,         \* "none", "fresh" (fitted here) or "loaded" (from the cache)
    pca_objs,           \* object -> array: data_train, err_train, mask_train, m, U, ...
    pca_ret             \* the object reconstruct_pca returned, None before

pcavars == <<pca_unit, pca_state, pca_origin, pca_objs, pca_ret>>

IdlePca ==
    /\ pca_unit = <<>>
    /\ pca_state = "idle"
    /\ pca_origin = "none"
    /\ pca_objs = <<>>
    /\ pca_ret = <<>>

(***************************************************************************)
(* State of one call of download() of archive_download.py.                 *)
(***************************************************************************)
VARIABLES
    products,           \* the number of products asked for
    max_retries,        \* the argument max_retries
    product,            \* the loop variable: 1 .. products, products + 1 after the loop
    retry,              \* the local retry
    success,            \* the local success
    dl_pc,              \* "for", "while", "try", "check", "returned", "raised"
    attempts,           \* product -> number of calls of download_products for it
    downloaded          \* the products download_products has delivered

dlvars == <<products, max_retries, product, retry, success, dl_pc, attempts, downloaded>>

IdleDownload ==
    /\ products = 0
    /\ max_retries = 0
    /\ product = 0
    /\ retry = 0
    /\ success = FALSE
    /\ dl_pc = "idle"
    /\ attempts = <<>>
    /\ downloaded = {}

\* the variables of the other parts of the program
VARIABLES mf_i, mf_left, mf_start

scalevars == <<mf_i, mf_left, mf_start>>

IdleScales == mf_i = 0 /\ mf_left = <<>> /\ mf_start = <<>>

VARIABLES q_method, q_width, q_i, q_ranges

quadvars == <<q_method, q_width, q_i, q_ranges>>

IdleQuad == q_method = "none" /\ q_width = 0 /\ q_i = 0 /\ q_ranges = <<>>

VARIABLES dq_array, dq_bit_mask

dqvars == <<dq_array, dq_bit_mask>>

IdleDq == dq_array = <<>> /\ dq_bit_mask = <<>>

nonpix == <<cachevars, poolvars, subsetvars, confvars, pcavars, dlvars, scalevars, quadvars, dqvars>>

IdleNonPix == IdleCache /\ IdlePool /\ IdleSubset /\ IdleConf /\ IdlePca /\ IdleDownload /\ IdleScales /\ IdleQuad /\ IdleDq

vars == <<pixvars, nonpix>>

IdlePix ==
    /\ file = <<>>
    /\ step = <<>>
    /\ pc = "idle"
    /\ im_data = <<>>
    /\ full_noise_model = <<>>
    /\ stage = "none"
    /\ stage_model = <<>>
    /\ stage_mask = <<>>
    /\ out_data = <<>>

\* quadrants = deepcopy(self.quadrants); forced off for a sub-array
quadrants == step.quadrants /\ ~file.subarray

InitPix ==
    /\ file \in Frames
    /\ step \in Configs
    /\ pc = "open"
    /\ im_data = file.data
    /\ full_noise_model = <<>>
    /\ stage = "none"
    /\ stage_model = <<>>
    /\ stage_mask = <<>>
    /\ out_data = <<>>

\* full_noise_model += <stage result>; numpy raises when shapes do not agree
Accumulate(name, model, mask, next) ==
    /\ stage' = name
    /\ stage_model' = model
    /\ stage_mask' = mask
    /\ IF Shape(model) = Shape(full_noise_model)
       THEN /\ full_noise_model' = ArrAdd(full_noise_model, model)
            /\ pc' = next
       ELSE /\ full_noise_model' = full_noise_model
            /\ pc' = "raised"
    /\ UNCHANGED <<file, step, im_data, out_data>>
    /\ UNCHANGED nonpix

\* the mask a stage builds from its input
MaskOfStage(sigclip_iters) ==
    StageMask(StageInput(im_data, full_noise_model), file.err, file.dq,
              step.dilate_size, sigclip_iters)

\* lines 315-326: quadrant leveling, then the empty noise model
Level ==
    /\ pc = "open"
    /\ im_data' = IF quadrants THEN level_data(file.data, file.err, file.dq) ELSE im_data
    /\ full_noise_model' = ZerosLike(im_data')
    /\ pc' = "levelled"
    /\ UNCHANGED <<file, step, stage, stage_model, stage_mask, out_data>>
    /\ UNCHANGED nonpix

\* lines 329-334
VerticalSubtraction ==
    /\ pc = "levelled"
    /\ step.vertical_subtraction
    /\ Accumulate("vertical",
                  run_vertical_subtraction(im_data, file.err, file.dq, full_noise_model,
                                           file.subarray, step.median_filter_scales,
                                           step.dilate_size),
                  MaskOfStage(DefaultMaxIters), "vertical")

SkipVertical ==
    /\ pc = "levelled"
    /\ ~step.vertical_subtraction
    /\ pc' = "vertical"
    /\ UNCHANGED <<file, step, im_data, full_noise_model, stage, stage_model,
                   stage_mask, out_data>>
    /\ UNCHANGED nonpix

RowMedian ==
    /\ pc = "vertical"
    /\ step.destriping_method = "row_median"
    /\ Accumulate("row_median",
                  run_row_median(im_data, file.err, file.dq, full_noise_model,
                                 quadrants, step.dilate_size),
                  MaskOfStage(DefaultSigclipIters), "modelled")

MedianFilter ==
    /\ pc = "vertical"
    /\ step.destriping_method = "median_filter"
    /\ Accumulate("median_filter",
                  run_median_filter(im_data, file.err, file.dq, full_noise_model,
                                    quadrants, step.median_filter_scales,
                                    step.dilate_size),
                  MaskOfStage(DefaultSigclipIters), "modelled")

Remstripe ==
    /\ pc = "vertical"
    /\ step.destriping_method = "remstripe"
    /\ Accumulate("remstripe",
                  run_remstriping(im_data, file.err, file.dq, full_noise_model,
                                  file.subarray, quadrants, step.dilate_size),
                  MaskOfStage(DefaultMaxIters), "modelled")

PcaDenoise ==
    /\ pc = "vertical"
    /\ step.destriping_method = "pca"
    /\ \E level \in PcaLevels, amp \in PcaAmps :
          Accumulate("pca",
                     run_pca_denoise(im_data, file.err, file.dq, full_noise_model,
                                     file.subarray, quadrants, step.dilate_size,
                                     PcaRecon(IF file.subarray THEN im_data ELSE Trim(im_data),
                                              level, amp)),
                     MaskOfStage(DefaultMaxIters), "modelled")

\* lines 383-398: subtract, put the zeros and NaNs of im.data back, save
Subtracted(data, model) ==
    Arr([r \in 1 .. Len(data) |-> [c \in 1 .. Len(data[r]) |->
        IF data[r][c] = 0 THEN 0
        ELSE IF IsNaN(data[r][c]) THEN NaN
        ELSE Sub(data[r][c], model[r][c])]])

Save ==
    /\ pc = "modelled"
    /\ im_data' = Subtracted(im_data, full_noise_model)
    /\ out_data' = im_data'
    /\ pc' = "saved"
    /\ UNCHANGED <<file, step, full_noise_model, stage, stage_model, stage_mask>>
    /\ UNCHANGED nonpix

Init == InitPix /\ IdleNonPix

Next ==
    \/ Level
    \/ VerticalSubtraction
    \/ SkipVertical
    \/ RowMedian
    \/ MedianFilter
    \/ Remstripe
    \/ PcaDenoise
    \/ Save

\* one exposure through SingleTileDestripeStep.parallel_destripe
Spec == Init /\ [][Next]_vars


(***************************************************************************)
(* Properties of one exposure's run (specification Spec).                  *)
(***************************************************************************)
\* twice the sigma-clipped median of array a over the cells m leaves unmasked
\* (0 when no finite cell is left)
ClippedMedian2(a, m) ==
    LET f == AsFamily(a)
        K == SigmaClip(f, FiniteIn(f, Unmasked(a, m)), DefaultSigma, DefaultMaxIters)
    IN  IF K = {} THEN 0 ELSE Median2(f, K)

\* C1: every pixel that is exactly zero in the input science array is exactly
\* zero in the written corrected array, and every pixel that is non-finite in
\* the input is non-finite in the corrected array.
C1_SentinelsPreserved ==
    pc = "saved" =>
        \A p \in Cells(file.data) :
            /\ file.data[p[1]][p[2]] = 0 => out_data[p[1]][p[2]] = 0
            /\ IsNaN(file.data[p[1]][p[2]]) => IsNaN(out_data[p[1]][p[2]])

\* C2: the noise model of every stage has a sigma-clipped median of zero over
\* the pixels outside the bad-pixel mask.  Medians are rounded down to the
\* unit here, so the test allows half a unit: |2 * median| <= 1.
C2_StageModelsCentred ==
    stage # "none" => Abs(ClippedMedian2(stage_model, stage_mask)) <= 1

\* C3: the noise model returned by every method (and by the vertical pass),
\* for full frames and sub-arrays, quadrants on or off, has exactly the shape
\* of the input science array.
C3_NoiseModelShape ==
    stage # "none" => Shape(stage_model) = Shape(file.data)

\* a full frame went through per-quadrant PCA and through the trimmed
\* [4:-4, 4:-4] block, which is smaller than the frame
C3_Witness ==
    /\ stage = "pca"
    /\ ~file.subarray
    /\ quadrants
    /\ Shape(Trim(file.data)) # Shape(file.data)
    /\ Shape(stage_model) = Shape(file.data)


(***************************************************************************)
(* The two quadrant levelers applied to a full frame (specification        *)
(* SpecLevel): SingleTileDestripeStep.level_data on the frame as read, and *)
(* NircamDestriper.level_data on the frame with its zeros set to NaN, as   *)
(* its callers hand it over.                                               *)
(***************************************************************************)
LevelOffsets == {0, 2, MaxOffset}

LevelFrames ==
    {FrameOf(<<0, o[1], o[2], o[3]>>, x[1], x[2], x[3], FALSE) :
        o \in LevelOffsets \X LevelOffsets \X LevelOffsets,
        x \in (StripeKinds \X PixelKinds \X PixelPositions)
              \cup (StripeKinds \X {"none"} \X {<<0, 0>>})}

InitLevel ==
    /\ file \in LevelFrames
    /\ step \in [use_sigma_clip : BOOLEAN, dilate_size : {DilateSize}]
    /\ pc = "open"
    /\ im_data = file.data
    /\ full_noise_model = <<>>
    /\ stage = "none"
    /\ stage_model = <<>>
    /\ stage_mask = <<>>
    /\ out_data = <<>>
    /\ IdleNonPix

ApplyLevelData ==
    /\ pc = "open"
    /\ im_data' = level_data(file.data, file.err, file.dq)
    /\ stage' = "level_data"
    /\ pc' = "levelled"
    /\ UNCHANGED <<file, step, full_noise_model, stage_model, stage_mask, out_data>>
    /\ UNCHANGED nonpix

ApplyLegacyLevelData ==
    /\ pc = "open"
    /\ im_data' = legacy_level_data(ZerosToNaN(file.data), step.use_sigma_clip,
                                    step.dilate_size)
    /\ stage' = "legacy_level_data"
    /\ pc' = "levelled"
    /\ UNCHANGED <<file, step, full_noise_model, stage_model, stage_mask, out_data>>
    /\ UNCHANGED nonpix

NextLevel ==
    \/ ApplyLevelData
    \/ ApplyLegacyLevelData

SpecLevel == InitLevel /\ [][NextLevel]_vars

\* the difference across boundary i as level_data measures it: the clipped
\* median, over the rows, of (row median of the last 20 columns of quadrant i
\* - row median of the first 20 columns of quadrant i + 1)
RowwiseBoundaryDifference(data, i) ==
    LET qs   == NColsOf(data) \div NQuadrants
        diff == Vec([r \in 1 .. Len(data) |->
                    Sub(NanMedian(data[r], (Strip1Lo(qs, i) + 1) .. Strip1Hi(qs, i)),
                        NanMedian(data[r], (Strip2Lo(qs, i) + 1) .. Strip2Hi(qs, i)))])
    IN  ClippedMedian(diff, DOMAIN diff, DefaultSigma, NoIterLimit)

\* the difference across boundary i taken on the pixels of the two strips:
\* clipped median of the one strip minus clipped median of the other
StripBoundaryDifference(data, i) ==
    LET qs == NColsOf(data) \div NQuadrants
        f  == AsFamily(data)
    IN  Sub(ClippedMedian(f, StripCells(data, Strip1Lo(qs, i), Strip1Hi(qs, i)),
                          DefaultSigma, NoIterLimit),
            ClippedMedian(f, StripCells(data, Strip2Lo(qs, i), Strip2Hi(qs, i)),
                          DefaultSigma, NoIterLimit))

\* the frame has no zero, non-finite or flagged pixel: its quadrants differ
\* by constant offsets and by nothing else
NoInvalidPixel ==
    \A p \in Cells(file.data) :
        /\ file.data[p[1]][p[2]] # 0
        /\ IsFinite(file.data[p[1]][p[2]])
        /\ file.dq[p[1]][p[2]] = 0

\* C10: after the Quadrant Leveler has run on a frame whose quadrants differ
\* by constant offsets, the clipped-median difference between the last 20
\* columns of quadrant i and the first 20 columns of quadrant i + 1 is zero at
\* each of the three internal boundaries: for level_data measured row by row
\* as it measures it, for the legacy leveler strip by strip, and for both
\* strip by strip when the frame has no invalid pixel.
C10_BoundariesLevelled ==
    pc = "levelled" =>
        \A i \in 0 .. 2 :
            /\ stage = "level_data" => RowwiseBoundaryDifference(im_data, i) = 0
            /\ stage = "legacy_level_data" => StripBoundaryDifference(im_data, i) = 0
            /\ NoInvalidPixel => StripBoundaryDifference(im_data, i) = 0

\* level_data has shifted every quadrant of a frame whose offsets need a
\* different shift at each boundary, so the third shift is the sum of three
C10_Witness ==
    /\ pc = "levelled"
    /\ stage = "level_data"
    /\ NoInvalidPixel
    /\ \A i \in 0 .. 2 : RowwiseBoundaryDifference(file.data, i) # 0
    /\ \A c \in 1 .. NQuadrants * (NCols \div NQuadrants) :
           im_data[3][c] = file.data[3][1]


(***************************************************************************)
(* The eigen-system cache of run_pca_denoise.  fit_robust_pca and the      *)
(* pickled files are represented by what they are the eigen-system of.     *)
(***************************************************************************)
MaxCalls == 2

\* the variables of the other parts of the program
noncache == <<pixvars, poolvars, subsetvars, confvars, pcavars, dlvars, scalevars, quadvars, dqvars>>

\* pca_file, and pca_file.replace(".pkl", "_amp_<i>.pkl")
WholeKey == <<"pkl">>

QuadrantKey(i) == <<"pkl", "amp", i>>

CacheKeys == {WholeKey} \cup {QuadrantKey(i) : i \in 0 .. NQuadrants - 1}

\* the result of fit_robust_pca on the training data of quadrant i / of the frame
FitOfQuadrant(i) == <<"fit", "amp", i>>

FitOfFrame == <<"fit", "frame">>

\* what an earlier execution left on disk under a key
StoredUnder(k) == <<"stored", k>>

\* single tile, line 771: os.path.exists(pca_file); line 772: open(pca_file)
SingleTileLookupKey(i) == WholeKey

\* legacy, lines 334-335: os.path.exists(pca_file) with pca_file the quadrant's name
LegacyLookupKey(i) == QuadrantKey(i)

\* one iteration of the quadrant loop: look up, else fit and write
QuadrantIteration(lookup) ==
    LET hit == pca_file # "None" /\ pca_disk[lookup] # "absent"
        es  == IF hit THEN pca_disk[lookup] ELSE FitOfQuadrant(pca_i)
    IN  /\ key_before' = [key_before EXCEPT ![pca_i] =
                              IF pca_file = "None" THEN "absent"
                              ELSE pca_disk[QuadrantKey(pca_i)]]
        /\ eigen_system_dict' = [eigen_system_dict EXCEPT ![pca_i] = es]
        /\ fit_ran' = IF hit THEN fit_ran ELSE fit_ran \cup {pca_i}
        /\ pca_disk' = IF ~hit /\ pca_file # "None"
                       THEN [pca_disk EXCEPT ![QuadrantKey(pca_i)] = es]
                       ELSE pca_disk
        /\ pca_i' = pca_i + 1
        /\ pca_pc' = IF pca_i + 1 = NQuadrants THEN "returned" ELSE "called"
        /\ UNCHANGED <<pca_impl, pca_file, pca_quadrants, pca_calls>>
        /\ UNCHANGED noncache

\* single tile, lines 766-786
SingleTilePcaQuadrant ==
    /\ pca_pc = "called"
    /\ pca_impl = "single_tile"
    /\ pca_quadrants
    /\ QuadrantIteration(SingleTileLookupKey(pca_i))

\* legacy, lines 329-349
LegacyPcaQuadrant ==
    /\ pca_pc = "called"
    /\ pca_impl = "legacy"
    /\ pca_quadrants
    /\ QuadrantIteration(LegacyLookupKey(pca_i))

\* single tile, lines 824-835, and legacy, lines 383-393: the whole frame
PcaWholeFrame ==
    /\ pca_pc = "called"
    /\ ~pca_quadrants
    /\ LET hit == pca_file # "None" /\ pca_disk[WholeKey] # "absent"
           es  == IF hit THEN pca_disk[WholeKey] ELSE FitOfFrame
       IN  /\ eigen_system_dict' = [i \in 0 .. NQuadrants - 1 |-> es]
           /\ pca_disk' = IF ~hit /\ pca_file # "None"
                          THEN [pca_disk EXCEPT ![WholeKey] = es]
                          ELSE pca_disk
    /\ pca_pc' = "returned"
    /\ UNCHANGED <<pca_impl, pca_file, pca_quadrants, pca_i, fit_ran, key_before,
                   pca_calls>>
    /\ UNCHANGED noncache

\* the exposure is processed again, with the files the last call left
PcaCallAgain ==
    /\ pca_pc = "returned"
    /\ pca_calls < MaxCalls
    /\ pca_calls' = pca_calls + 1
    /\ pca_pc' = "called"
    /\ pca_i' = 0
    /\ eigen_system_dict' = [i \in 0 .. NQuadrants - 1 |-> "none"]
    /\ fit_ran' = {}
    /\ key_before' = [i \in 0 .. NQuadrants - 1 |-> "none"]
    /\ pca_quadrants' \in BOOLEAN
    /\ UNCHANGED <<pca_impl, pca_file, pca_disk>>
    /\ UNCHANGED noncache

InitCache ==
    /\ pca_impl \in {"single_tile", "legacy"}
    /\ pca_file \in {"pkl", "None"}
    /\ pca_quadrants \in BOOLEAN
    /\ \E present \in SUBSET CacheKeys :
          pca_disk = [k \in CacheKeys |->
                        IF k \in present THEN StoredUnder(k) ELSE "absent"]
    /\ pca_pc = "called"
    /\ pca_i = 0
    /\ eigen_system_dict = [i \in 0 .. NQuadrants - 1 |-> "none"]
    /\ fit_ran = {}
    /\ key_before = [i \in 0 .. NQuadrants - 1 |-> "none"]
    /\ pca_calls = 1
    /\ IdlePix
    /\ IdlePool
    /\ IdleSubset
    /\ IdleConf
    /\ IdlePca
    /\ IdleDownload
    /\ IdleScales
    /\ IdleQuad
    /\ IdleDq

NextCache ==
    \/ SingleTilePcaQuadrant
    \/ LegacyPcaQuadrant
    \/ PcaWholeFrame
    \/ PcaCallAgain

\* the PCA cache of one exposure over repeated calls
SpecCache == InitCache /\ [][NextCache]_vars

\* C4: in per-quadrant mode with a cache file name, every quadrant the loop
\* has passed was looked up under its own key: if that key held an
\* eigen-system the fit did not run and that eigen-system reconstructs the
\* quadrant, and if it held none the fit ran and its result is stored under
\* that key.
C4_QuadrantCacheKey ==
    pca_quadrants /\ pca_file # "None" =>
        \A i \in 0 .. NQuadrants - 1 : i < pca_i =>
            /\ key_before[i] # "absent" =>
                    /\ i \notin fit_ran
                    /\ eigen_system_dict[i] = key_before[i]
            /\ key_before[i] = "absent" =>
                    /\ i \in fit_ran
                    /\ eigen_system_dict[i] = FitOfQuadrant(i)
                    /\ pca_disk[QuadrantKey(i)] = FitOfQuadrant(i)


(***************************************************************************)
(* The batch drivers: SingleTileDestripeStep.do_step / run_step and        *)
(* MultiTileDestripeStep.do_step / weighted_reproject_image /              *)
(* run_multi_tile_destripe.  Both iterate over pool.imap_unordered, which  *)
(* hands the inputs out in order, yields the results in the order the      *)
(* workers finish, and re-raises a worker's exception in the parent when   *)
(* the iteration reaches it; leaving the `with` block terminates the pool. *)
(* Inputs are numbered from 1.  Arrays are represented by references.      *)
(***************************************************************************)
NFiles == 3

\* the values of the procs argument of the step
ProcChoices == {1, 2}

MaxRuns == 2

\* the variables of the other parts of the program
nonpool == <<pixvars, cachevars, subsetvars, confvars, pcavars, dlvars, scalevars, quadvars, dqvars>>

Inputs == 1 .. NFiles

\* files = glob.glob(...); files.sort()
FileOf(k) == <<"file", k>>

\* the ReprojectedArraySubset objects parallel_reproject_weight returns for input k
DataRef(k) == <<"data_array", k>>

WeightRef(k) == <<"weight_array", k>>

\* the stripe model multi_tile_destripe returns for input k
StripesOf(k) == <<"stripes", k>>

\* Python's None, as an element of a list of tuples
None == <<"None">>

\* [None] * len(files)
NoneList == [k \in Inputs |-> None]

\* the last input is never handed out
TaskList_LastLeftOut == [k \in 1 .. NFiles - 1 |-> k]

\* range(len(files)), or files: the iterable of the pool
TaskList == [k \in Inputs |-> k]

\* procs = np.nanmin([self.procs, len(files)])
Procs == Min(batch.procs, NFiles)

NoFault == [at |-> 0, phase |-> "none"]

Raises(k, phase) == fault.at = k /\ fault.phase = phase

\* the value lands in the first slot that is still None
StoreAt_NextFree(list, i, value) ==
    LET free == {k \in DOMAIN list : list[k] = None}
    IN  IF free = {} THEN list
        ELSE [list EXCEPT ![CHOOSE k \in free : \A j \in free : k <= j] = value]

\* list[i] = value
StoreAt(list, i, value) == [list EXCEPT ![i] = value]

\* nothing reaches the disk
AfterSave_NotWritten(dir, k) == dir

\* im.save(out_name): the corrected file of input k is in the output directory
AfterSave(dir, k) == [dir EXCEPT !.files = @ \cup {FileOf(k)}]

PoolDrained == pending = <<>> /\ running = {} /\ outq = <<>>

\* the directory is emptied of its files but keeps its marker
PreparedOutDir_MarkerKept(dir, overwrite) ==
    IF overwrite THEN [exists |-> TRUE, files |-> {}, marker |-> dir.marker]
    ELSE [dir EXCEPT !.exists = TRUE]

\* shutil.rmtree(self.out_dir) when overwrite is set, then os.makedirs
PreparedOutDir(dir, overwrite) ==
    IF overwrite THEN [exists |-> TRUE, files |-> {}, marker |-> FALSE]
    ELSE [dir EXCEPT !.exists = TRUE]

\* do_step up to the creation of the first pool
DoStepBegin ==
    /\ step_pc = "start"
    /\ IF batch.overwrite /\ ~out_dir.exists
       THEN \* shutil.rmtree(self.out_dir) raises FileNotFoundError
            /\ step_pc' = "raised"
            /\ UNCHANGED <<out_dir, pending, successes, files_reproj, data_reproj,
                           weight_reproj, results, completed, failed>>
       ELSE LET dir == PreparedOutDir(out_dir, batch.overwrite)
            IN  /\ out_dir' = dir
                /\ IF dir.marker
                   THEN \* "Step already run"
                        /\ step_pc' = "returned_true"
                        /\ UNCHANGED <<pending, successes, files_reproj, data_reproj,
                                       weight_reproj, results, completed, failed>>
                   ELSE /\ pending' = TaskList
                        /\ completed' = {}
                        /\ failed' = {}
                        /\ IF batch.mode = "single_tile"
                           THEN /\ step_pc' = "destripe"
                                /\ successes' = <<>>
                                /\ UNCHANGED <<files_reproj, data_reproj,
                                               weight_reproj, results>>
                           ELSE /\ step_pc' = "reproject"
                                /\ files_reproj' = NoneList
                                /\ data_reproj' = NoneList
                                /\ weight_reproj' = NoneList
                                /\ UNCHANGED <<successes, results>>
    /\ UNCHANGED <<batch, fault, running, outq, finish_order, runs>>
    /\ UNCHANGED nonpool

\* the pool hands the next input to an idle worker
Dispatch ==
    /\ step_pc \in {"reproject", "destripe"}
    /\ pending # <<>>
    /\ Cardinality(running) < Procs
    /\ running' = running \cup {Head(pending)}
    /\ pending' = Tail(pending)
    /\ UNCHANGED <<batch, fault, step_pc, outq, finish_order, successes, files_reproj,
                   data_reproj, weight_reproj, results, out_dir, completed, failed, runs>>
    /\ UNCHANGED nonpool

\* a worker call ends: its return value or its exception is queued for the parent
WorkerEnds(k, raised, value) ==
    /\ running' = running \ {k}
    /\ outq' = Append(outq, [task |-> k, raised |-> raised, value |-> value])
    /\ finish_order' = Append(finish_order, k)
    /\ failed' = IF raised THEN failed \cup {k} ELSE failed
    /\ UNCHANGED <<batch, fault, step_pc, pending, successes, files_reproj, data_reproj,
                   weight_reproj, results, runs>>
    /\ UNCHANGED nonpool

\* SingleTileDestripeStep.parallel_destripe(files[k]): saves, returns True
ParallelDestripe(k) ==
    /\ step_pc = "destripe"
    /\ batch.mode = "single_tile"
    /\ k \in running
    /\ IF Raises(k, "destripe")
       THEN /\ WorkerEnds(k, TRUE, "exception")
            /\ UNCHANGED <<out_dir, completed>>
       ELSE /\ WorkerEnds(k, FALSE, TRUE)
            /\ out_dir' = AfterSave(out_dir, k)
            /\ completed' = completed \cup {k}

\* parallel_reproject_weight(k): returns idx, (file, data_array, weight_array)
ParallelReprojectWeight(k) ==
    /\ step_pc = "reproject"
    /\ k \in running
    /\ IF Raises(k, "reproject")
       THEN WorkerEnds(k, TRUE, "exception")
       ELSE WorkerEnds(k, FALSE, <<k, <<FileOf(k), DataRef(k), WeightRef(k)>>>>)
    /\ UNCHANGED <<out_dir, completed>>

\* MultiTileDestripeStep.parallel_multi_tile_destripe(k): returns idx, (file, stripes)
ParallelMultiTileDestripe(k) ==
    /\ step_pc = "destripe"
    /\ batch.mode = "multi_tile"
    /\ k \in running
    /\ IF Raises(k, "destripe")
       THEN /\ WorkerEnds(k, TRUE, "exception")
            /\ UNCHANGED completed
       ELSE /\ WorkerEnds(k, FALSE, <<k, <<files_reproj[k], StripesOf(k)>>>>)
            /\ completed' = completed \cup {k}
    /\ UNCHANGED out_dir

\* run_step, lines 275-287: successes.append(success)
CollectSuccess ==
    /\ step_pc = "destripe"
    /\ batch.mode = "single_tile"
    /\ outq # <<>>
    /\ ~Head(outq).raised
    /\ successes' = Append(successes, Head(outq).value)
    /\ outq' = Tail(outq)
    /\ UNCHANGED <<batch, fault, step_pc, pending, running, finish_order, files_reproj,
                   data_reproj, weight_reproj, results, out_dir, completed, failed, runs>>
    /\ UNCHANGED nonpool

\* weighted_reproject_image, lines 358-375
CollectReprojected ==
    /\ step_pc = "reproject"
    /\ outq # <<>>
    /\ ~Head(outq).raised
    /\ LET i      == Head(outq).value[1]
           result == Head(outq).value[2]
       IN  /\ files_reproj' = StoreAt(files_reproj, i, result[1])
           /\ data_reproj' = StoreAt(data_reproj, i, result[2])
           /\ weight_reproj' = StoreAt(weight_reproj, i, result[3])
    /\ outq' = Tail(outq)
    /\ UNCHANGED <<batch, fault, step_pc, pending, running, finish_order, successes,
                   results, out_dir, completed, failed, runs>>
    /\ UNCHANGED nonpool

\* run_multi_tile_destripe, lines 399-412
CollectResult ==
    /\ step_pc = "destripe"
    /\ batch.mode = "multi_tile"
    /\ outq # <<>>
    /\ ~Head(outq).raised
    /\ results' = StoreAt(results, Head(outq).value[1], Head(outq).value[2])
    /\ outq' = Tail(outq)
    /\ UNCHANGED <<batch, fault, step_pc, pending, running, finish_order, successes,
                   files_reproj, data_reproj, weight_reproj, out_dir, completed, failed,
                   runs>>
    /\ UNCHANGED nonpool

\* the iteration reaches a worker's exception: it is raised in the parent, the
\* `with` block terminates the pool, and nothing in do_step catches it
WorkerExceptionPropagates ==
    /\ step_pc \in {"reproject", "destripe"}
    /\ outq # <<>>
    /\ Head(outq).raised
    /\ step_pc' = "raised"
    /\ pending' = <<>>
    /\ running' = {}
    /\ outq' = <<>>
    /\ UNCHANGED <<batch, fault, finish_order, successes, files_reproj, data_reproj,
                   weight_reproj, results, out_dir, completed, failed, runs>>
    /\ UNCHANGED nonpool

\* single tile: run_step returns successes; do_step, lines 249-257
RunStepReturns ==
    /\ step_pc = "destripe"
    /\ batch.mode = "single_tile"
    /\ PoolDrained
    /\ IF \A j \in DOMAIN successes : successes[j]
       THEN /\ out_dir' = [out_dir EXCEPT !.marker = TRUE]
            /\ step_pc' = "returned_true"
       ELSE /\ out_dir' = out_dir
            /\ step_pc' = "returned_false"
    /\ UNCHANGED <<batch, fault, pending, running, outq, finish_order, successes,
                   files_reproj, data_reproj, weight_reproj, results, completed, failed,
                   runs>>
    /\ UNCHANGED nonpool

\* multi tile: weighted_reproject_image returns True, run_multi_tile_destripe
\* opens the second pool
WeightedReprojectReturns ==
    /\ step_pc = "reproject"
    /\ PoolDrained
    /\ step_pc' = "destripe"
    /\ results' = NoneList
    /\ pending' = TaskList
    /\ finish_order' = <<>>
    /\ UNCHANGED <<batch, fault, running, outq, successes, files_reproj, data_reproj,
                   weight_reproj, out_dir, completed, failed, runs>>
    /\ UNCHANGED nonpool

\* multi tile: run_multi_tile_destripe, lines 418-433, then do_step, lines 325-328
WriteOutputs ==
    /\ step_pc = "destripe"
    /\ batch.mode = "multi_tile"
    /\ PoolDrained
    /\ out_dir' = [out_dir EXCEPT
                     !.files = @ \cup {results[k][1] : k \in {j \in Inputs : results[j] # None}},
                     !.marker = TRUE]
    /\ step_pc' = "returned_true"
    /\ UNCHANGED <<batch, fault, pending, running, outq, finish_order, successes,
                   files_reproj, data_reproj, weight_reproj, results, completed, failed,
                   runs>>
    /\ UNCHANGED nonpool

\* the pipeline is started again on the same directories; the cause of a
\* failure may by then be gone
DoStepAgain ==
    /\ step_pc \in {"returned_true", "returned_false", "raised"}
    /\ runs < MaxRuns
    /\ runs' = runs + 1
    /\ step_pc' = "start"
    /\ fault' \in {fault, NoFault}
    /\ UNCHANGED <<batch, pending, running, outq, finish_order, successes, files_reproj,
                   data_reproj, weight_reproj, results, out_dir, completed, failed>>
    /\ UNCHANGED nonpool

InitPool ==
    /\ batch \in [mode : {"single_tile", "multi_tile"}, overwrite : BOOLEAN,
                  procs : ProcChoices]
    /\ fault \in {NoFault} \cup
                 {[at |-> k, phase |-> ph] : k \in Inputs,
                     ph \in IF batch.mode = "single_tile" THEN {"destripe"}
                            ELSE {"reproject", "destripe"}}
    /\ step_pc = "start"
    /\ pending = <<>>
    /\ running = {}
    /\ outq = <<>>
    /\ finish_order = <<>>
    /\ successes = <<>>
    /\ files_reproj = <<>>
    /\ data_reproj = <<>>
    /\ weight_reproj = <<>>
    /\ results = <<>>
    /\ out_dir \in [exists : BOOLEAN, files : {{}}, marker : {FALSE}]
    /\ completed = {}
    /\ failed = {}
    /\ runs = 1
    /\ IdlePix
    /\ IdleCache
    /\ IdleSubset
    /\ IdleConf
    /\ IdlePca
    /\ IdleDownload
    /\ IdleScales
    /\ IdleQuad
    /\ IdleDq

NextPool ==
    \/ DoStepBegin
    \/ Dispatch
    \/ \E k \in Inputs : ParallelDestripe(k)
    \/ \E k \in Inputs : ParallelReprojectWeight(k)
    \/ \E k \in Inputs : ParallelMultiTileDestripe(k)
    \/ CollectSuccess
    \/ CollectReprojected
    \/ CollectResult
    \/ WorkerExceptionPropagates
    \/ RunStepReturns
    \/ WeightedReprojectReturns
    \/ WriteOutputs
    \/ DoStepAgain

\* one batch directory over repeated do_step calls
SpecPool == InitPool /\ [][NextPool]_vars

\* slot k of the lists of the two multi-tile pools holds what was computed from input k
IndexedLists ==
    /\ \A k \in DOMAIN data_reproj : data_reproj[k] # None =>
            /\ files_reproj[k] = FileOf(k)
            /\ data_reproj[k] = DataRef(k)
            /\ weight_reproj[k] = WeightRef(k)
    /\ \A k \in DOMAIN results : results[k] # None =>
            results[k] = <<FileOf(k), StripesOf(k)>>

\* C5 as stated: in the reprojection pool, in the multi-tile destriping pool
\* and in the single-tile success list, entry k comes from input file k,
\* whatever the order in which the workers finish.
C5_AllListsByInputIndex ==
    /\ IndexedLists
    /\ batch.mode = "single_tile" =>
            \A k \in DOMAIN successes : finish_order[k] = k

\* C5: entry k of the lists built from the reprojection pool and from the
\* multi-tile destriping pool comes from input file k, whatever the order in
\* which the workers finish; the single-tile success list holds one flag per
\* finished exposure, in the order of finishing, and one per input once
\* run_step has returned.
C5_PoolListsByInputIndex ==
    /\ IndexedLists
    /\ batch.mode = "single_tile" =>
            /\ Len(successes) <= Len(finish_order)
            /\ step_pc \in {"returned_true", "returned_false"} =>
                    Len(successes) = NFiles

C5_Witness ==
    /\ batch.mode = "multi_tile"
    /\ step_pc = "destripe"
    /\ \A k \in Inputs : results[k] = <<FileOf(k), StripesOf(k)>>
    /\ finish_order # TaskList

\* C7 as stated: once a worker has raised, do_step does not return and writes
\* no completion marker, the pool is gone when the exception has left
\* do_step, the corrected file of every exposure whose worker had returned
\* is on disk, and a later do_step that returns true leaves all outputs.
C7_CompletedOutputsRemain ==
    /\ failed # {} =>
            /\ step_pc \notin {"returned_true", "returned_false"}
            /\ ~out_dir.marker
            /\ step_pc = "raised" => pending = <<>> /\ running = {}
            /\ \A k \in completed : FileOf(k) \in out_dir.files
    /\ step_pc = "returned_true" =>
            out_dir.marker /\ out_dir.files = {FileOf(k) : k \in Inputs}

\* C7: once a worker has raised, do_step does not return and writes no
\* completion marker, the pool is gone when the exception has left do_step;
\* in the single-tile step the corrected file of every exposure whose worker
\* had returned is on disk, in the multi-tile step no corrected file has been
\* written; and a later do_step that returns true leaves all outputs.
C7_AbortLeavesWrittenOutputs ==
    /\ failed # {} =>
            /\ step_pc \notin {"returned_true", "returned_false"}
            /\ ~out_dir.marker
            /\ step_pc = "raised" => pending = <<>> /\ running = {}
            /\ batch.mode = "single_tile" =>
                    \A k \in completed : FileOf(k) \in out_dir.files
            /\ batch.mode = "multi_tile" => out_dir.files = {}
    /\ step_pc = "returned_true" =>
            out_dir.marker /\ out_dir.files = {FileOf(k) : k \in Inputs}

C7_Witness ==
    /\ batch.mode = "single_tile"
    /\ step_pc = "raised"
    /\ failed # {}
    /\ completed # {}
    /\ \A k \in completed : FileOf(k) \in out_dir.files

\* C8: when do_step has ended after the worker of some exposure failed, it
\* has not raised; the single-tile batch has returned one flag per input with
\* a false one among them, the multi-tile batch has no result for the failed
\* exposure; and no corrected file of the failed exposure was written.
C8_FailureFlagged ==
    failed # {} /\ step_pc \in {"returned_true", "returned_false", "raised"} =>
        /\ step_pc # "raised"
        /\ batch.mode = "single_tile" =>
                /\ Len(successes) = NFiles
                /\ \E j \in DOMAIN successes : ~successes[j]
        /\ batch.mode = "multi_tile" =>
                \A k \in failed : results[k] = None
        /\ \A k \in failed : FileOf(k) \notin out_dir.files


(***************************************************************************)
(* MultiTileDestripeStep.create_subset_reproj_image, on objects with       *)
(* identity.  A ReprojectedArraySubset is [array, imin, imax, jmin, jmax]; *)
(* its binary operators return a new object over the common cutout and     *)
(* overlaps() compares the bounds.  Pixels are addressed by their position *)
(* (j, i) in the common output grid.                                       *)
(***************************************************************************)
NTiles == 3

TileRows == 2

TileCols == 3

ExpTime == 2

LevelGap == 4

SubsetMaxIters == 10

\* the variables of the other parts of the program
nonsubset == <<pixvars, cachevars, confvars, pcavars, dlvars, scalevars, quadvars, dqvars, batch, fault, step_pc,
               pending, running, outq, finish_order, successes, files_reproj, data_reproj, weight_reproj,
               results, out_dir, completed, failed, runs>>

Tiles == 1 .. NTiles

SubsetWorkers == {1, 2}

SharedRefs == {DataRef(k) : k \in Tiles} \cup {WeightRef(k) : k \in Tiles}

\* the sky on the common grid
Sky(j, i) == Background + ((i + 2 * j) % 3)

\* the pixels of input 2 without valid science data: one pixel, "sci" when
\* only its science value is non-finite or zero and "flagged" when it is
\* flagged DO_NOT_USE, so that reproject_image blanks it in every array; or
\* "blank", every pixel of the exposure with a non-finite science value
BadPixelKinds == {"none", "sci", "flagged", "blank"}

IsBadPixel(k, r, c, bad) ==
    k = 2 /\ (bad = "blank" \/ (bad \in {"sci", "flagged"} /\ r = 1 /\ c = 1))

\* what parallel_reproject_weight makes of the reprojected science array of
\* input k: the data with bad pixels set to 0
TileData(k, shift, gap, bad) ==
    [array |-> Arr([r \in 1 .. TileRows |-> [c \in 1 .. TileCols |->
                    IF IsBadPixel(k, r, c, bad) THEN 0
                    ELSE Sky(r - 1, (k - 1) * shift + c - 1) + (k - 1) * gap]]),
     imin |-> (k - 1) * shift, imax |-> (k - 1) * shift + TileCols,
     jmin |-> 0, jmax |-> TileRows]

\* reproject_image(file, hdu_type="var_rnoise"): a read-noise variance of 1,
\* NaN where the pixel is flagged
TileVarRnoise(k, shift, gap, bad) ==
    [TileData(k, shift, gap, bad) EXCEPT
        !.array = Arr([r \in 1 .. TileRows |-> [c \in 1 .. TileCols |->
                        IF IsBadPixel(k, r, c, bad) /\ bad = "flagged" THEN NaN ELSE 1]])]

\* x ** -1 for the variances used here
Inverse(x) == IF IsNaN(x) THEN NaN ELSE 1 \div x

\* lines 180-199: the exposure time wherever the data is not 0, or the
\* inverse of the reprojected variance with NaN set to 0
TileWeight(data, var_rnoise, weight_type) ==
    [data EXCEPT !.array = Arr([r \in 1 .. Len(data.array) |->
                                 [c \in 1 .. Len(data.array[r]) |->
                                    IF weight_type = "exptime"
                                    THEN IF data.array[r][c] = 0 THEN 0 ELSE ExpTime
                                    ELSE IF IsNaN(Inverse(var_rnoise.array[r][c])) THEN 0
                                    ELSE Inverse(var_rnoise.array[r][c])]])]

TileHeap(shift, gap, bad, weight_type) ==
    [ref \in SharedRefs |->
        IF ref[1] = "data_array" THEN TileData(ref[2], shift, gap, bad)
        ELSE TileWeight(TileData(ref[2], shift, gap, bad),
                        TileVarRnoise(ref[2], shift, gap, bad), weight_type)]

\* the copy is the object itself
deepcopy_SameObject(h, ref) == [heap |-> h, ref |-> ref]

\* copy.deepcopy(obj): a new object with the same content
deepcopy(h, ref) ==
    LET new == <<"copy", Cardinality(DOMAIN h)>>
    IN  [heap |-> (new :> h[ref]) @@ h, ref |-> new]

\* ReprojectedArraySubset.overlaps
overlaps(a, b) ==
    ~(a.imax <= b.imin \/ b.imax <= a.imin \/ a.jmax <= b.jmin \/ b.jmax <= a.jmin)

\* the grid positions of the cutout common to a and b (empty when they are apart)
Cutout(a, b) ==
    {<<j, i>> : j \in Max(a.jmin, b.jmin) .. (Min(a.jmax, b.jmax) - 1),
                i \in Max(a.imin, b.imin) .. (Min(a.imax, b.imax) - 1)}

PixelAt(obj, j, i) == obj.array[j - obj.jmin + 1][i - obj.imin + 1]

\* arr -= s on the array of the object ref refers to
SubtractInPlace(h, ref, s) == [h EXCEPT ![ref].array = ArrSubScalar(@, s)]

\* lines 503-519: the clipped median of the nonzero differences on the cutout
\* where both weights are positive; NaN when there is none
DiffMedian(data_idx, weight_idx, data_sub, weight_sub) ==
    LET R    == Cutout(data_idx, data_sub)
        diff == [p \in R |-> PixelAt(data_idx, p[1], p[2]) - PixelAt(data_sub, p[1], p[2])]
        keep == {p \in R : /\ PixelAt(weight_idx, p[1], p[2])
                                 * PixelAt(weight_sub, p[1], p[2]) > 0
                            /\ diff[p] # 0}
    IN  ClippedMedian(diff, keep, DefaultSigma, SubsetMaxIters)

\* lines 521-546: new_data and new_weights, of the shape of the file's array
Placed(file_data, data_idx, weight_idx, weighted) ==
    Arr([r \in 1 .. Len(file_data.array) |-> [c \in 1 .. Len(file_data.array[r]) |->
        LET j == file_data.jmin + r - 1
            i == file_data.imin + c - 1
        IN  IF <<j, i>> \in Cutout(file_data, data_idx)
            THEN IF weighted
                 THEN PixelAt(weight_idx, j, i) * PixelAt(data_idx, j, i)
                 ELSE PixelAt(weight_idx, j, i)
            ELSE 0]])

\* no overlap is too little
TooLittleOverlap_Never(n_valid, npix_file, min_area_frac) == FALSE

\* lines 548-555: area_frac < self.min_area_frac, for min_area_frac given as
\* <<numerator, denominator>>
TooLittleOverlap(n_valid, npix_file, min_area_frac) ==
    n_valid * min_area_frac[2] < min_area_frac[1] * npix_file

\* line 552: len(valid_i) / npix_file divides two Python integers
DivisionRaises(npix_file) == npix_file = 0

\* lines 492-559: the loop over the other inputs, from idx on; it ends early
\* when the division raises
RECURSIVE SubsetLoop(_, _, _, _)
SubsetLoop(h, subset_idx, idx, acc) ==
    IF idx > Len(data_reproj) THEN [acc EXCEPT !.heap = h]
    ELSE IF idx = subset_idx
            \/ ~overlaps(h[data_reproj[subset_idx]], h[data_reproj[idx]])
    THEN SubsetLoop(h, subset_idx, idx + 1, acc)
    ELSE LET c1         == deepcopy(h, data_reproj[idx])
             data_idx   == c1.ref
             c2         == deepcopy(c1.heap, weight_reproj[idx])
             weight_idx == c2.ref
             h2         == c2.heap
             diff_med   == DiffMedian(h2[data_idx], h2[weight_idx],
                                      h2[data_reproj[subset_idx]],
                                      h2[weight_reproj[subset_idx]])
         IN  IF IsNaN(diff_med) THEN SubsetLoop(h2, subset_idx, idx + 1, acc)
             ELSE LET h3          == SubtractInPlace(h2, data_idx, diff_med)
                      new_data    == Placed(acc.file_data, h3[data_idx], h3[weight_idx], TRUE)
                      new_weights == Placed(acc.file_data, h3[data_idx], h3[weight_idx], FALSE)
                      valid_i     == {p \in acc.valid_idx : new_data[p[1]][p[2]] # 0}
                  IN  IF DivisionRaises(Cardinality(acc.valid_idx))
                      THEN [acc EXCEPT !.heap = h3, !.raised = TRUE]
                      ELSE IF TooLittleOverlap(Cardinality(valid_i),
                                               Cardinality(acc.valid_idx),
                                               subset_step.min_area_frac)
                      THEN SubsetLoop(h3, subset_idx, idx + 1, acc)
                      ELSE SubsetLoop(h3, subset_idx, idx + 1,
                               [acc EXCEPT !.data = ArrAdd(@, new_data),
                                           !.weights = ArrAdd(@, new_weights),
                                           !.siblings = @ \cup {idx}])

\* data / weights, with 0 replaced by NaN; a quotient is kept as <<num, den>>
DataAvg(data, weights) ==
    [r \in 1 .. Len(data) |-> [c \in 1 .. Len(data[r]) |->
        IF weights[r][c] = 0 \/ data[r][c] = 0 THEN <<NaN, 1>>
        ELSE <<data[r][c], weights[r][c]>>]]

\* the sums start empty: nothing of the file itself is put in
OwnContribution_LeftOut(file_data, file_weight) ==
    [data |-> ZerosLike(file_data.array), weights |-> ZerosLike(file_weight.array)]

\* lines 470-475: data and weights once the original image has been put in
OwnContribution(file_data, file_weight) ==
    [data    |-> Arr([r \in 1 .. Len(file_data.array) |->
                      [c \in 1 .. Len(file_data.array[r]) |->
                         file_weight.array[r][c] * file_data.array[r][c]]]),
     weights |-> file_weight.array]

\* create_subset_reproj_image(subset_idx) in a process whose objects are h
create_subset_reproj_image(h, subset_idx) ==
    LET c1          == deepcopy(h, data_reproj[subset_idx])
        c2          == deepcopy(c1.heap, weight_reproj[subset_idx])
        file_data   == c2.heap[c1.ref]
        file_weight == c2.heap[c2.ref]
        Summed(own) == SubsetLoop(c2.heap, subset_idx, 1,
                           [heap |-> c2.heap, file_data |-> file_data,
                            data |-> own.data, weights |-> own.weights,
                            valid_idx |-> {p \in Cells(own.data) : own.data[p[1]][p[2]] # 0},
                            siblings |-> {}, raised |-> FALSE])
        done        == Summed(OwnContribution(file_data, file_weight))
    IN  [heap |-> done.heap,
         siblings |-> done.siblings,
         raised |-> done.raised,
         return |-> <<DataAvg(done.data, done.weights), file_data.imin, file_data.imax,
                      file_data.jmin, file_data.jmax>>]

\* the exception a call ended with, in place of its return value
ZeroDivisionError == <<"ZeroDivisionError">>

\* a worker runs create_subset_reproj_image for an input; its temporaries
\* are gone when the call returns or raises
CreateSubsetReprojImage(w, idx) ==
    /\ subset_out[idx] = None
    /\ LET r == create_subset_reproj_image(heap[w], idx)
       IN  /\ heap' = [heap EXCEPT ![w] = [ref \in SharedRefs |-> r.heap[ref]]]
           /\ subset_out' = [subset_out EXCEPT ![idx] =
                                IF r.raised THEN ZeroDivisionError
                                ELSE <<r.return, r.siblings>>]
    /\ UNCHANGED <<forked_heap, subset_step>>
    /\ UNCHANGED nonsubset

\* create_subset_reproj_image has returned for input idx
HasReturned(idx) == subset_out[idx] \notin {None, ZeroDivisionError}

ShiftChoices == {1, 2, TileCols}

InitSubset ==
    /\ subset_step \in [min_area_frac : {<<1, 2>>, <<0, 1>>}, weight_type : {"exptime", "ivm"}]
    /\ \E shift \in ShiftChoices, gap \in {0, LevelGap}, bad \in BadPixelKinds :
          forked_heap = TileHeap(shift, gap, bad, subset_step.weight_type)
    /\ heap = [w \in SubsetWorkers |-> forked_heap]
    /\ subset_out = [k \in Tiles |-> None]
    /\ data_reproj = [k \in Tiles |-> DataRef(k)]
    /\ weight_reproj = [k \in Tiles |-> WeightRef(k)]
    /\ files_reproj = [k \in Tiles |-> FileOf(k)]
    /\ batch = <<>>
    /\ fault = <<>>
    /\ step_pc = "destripe"
    /\ pending = <<>>
    /\ running = {}
    /\ outq = <<>>
    /\ finish_order = <<>>
    /\ successes = <<>>
    /\ results = <<>>
    /\ out_dir = <<>>
    /\ completed = {}
    /\ failed = {}
    /\ runs = 0
    /\ IdlePix
    /\ IdleCache
    /\ IdleConf
    /\ IdlePca
    /\ IdleDownload
    /\ IdleScales
    /\ IdleQuad
    /\ IdleDq

NextSubset ==
    \E w \in SubsetWorkers, idx \in Tiles : CreateSubsetReprojImage(w, idx)

\* the destriping workers of one multi-tile batch
SpecSubset == InitSubset /\ [][NextSubset]_vars

\* C6: at every moment of the destriping phase, in every worker, every
\* object data_reproj and weight_reproj refer to has the pixel values and the
\* bounds it had when the phase started.
C6_SharedStackUnchanged ==
    \A w \in DOMAIN heap : \A ref \in SharedRefs : heap[w][ref] = forked_heap[ref]

C6_Witness ==
    /\ \E idx \in Tiles : HasReturned(idx) /\ subset_out[idx][2] # {}
    /\ \A w \in DOMAIN heap : \A ref \in SharedRefs : heap[w][ref] = forked_heap[ref]


(***************************************************************************)
(* Validation of the configuration: the constructors of the two steps and  *)
(* of the legacy destriper, and utils.parse_fits_to_table.                 *)
(***************************************************************************)
\* the variables of the other parts of the program
nonconf == <<pixvars, cachevars, poolvars, subsetvars, pcavars, dlvars, scalevars, quadvars, dqvars>>

LEGACY_DESTRIPING_METHODS == {"row_median", "median_filter", "pca"}

ALLOWED_WEIGHT_TYPES == {"exptime", "ivm"}

MethodNames == DESTRIPING_METHODS \cup {"fourier"}

WeightNames == ALLOWED_WEIGHT_TYPES \cup {"uniform"}

CheckTypeNames == {"parallel_off", "check_in_name", "by_target"}

\* text as a sequence of characters
Chars(w) ==
    CASE w = "off"     -> <<"o", "f", "f">>
      [] w = "Off"     -> <<"O", "f", "f">>
      [] w = "sky"     -> <<"s", "k", "y">>
      [] w = "M51"     -> <<"M", "5", "1">>
      [] w = "M51-Off" -> <<"M", "5", "1", "-", "O", "f", "f">>
      [] w = "02101"   -> <<"0", "2", "1", "0", "1">>
      [] w = "02201"   -> <<"0", "2", "2", "0", "1">>

\* str.lower on the letters that occur
LowerChar(ch) == IF ch = "O" THEN "o" ELSE IF ch = "M" THEN "m" ELSE ch

Lower(t) == [n \in 1 .. Len(t) |-> LowerChar(t[n])]

\* a in b, for strings
Contains(b, a) ==
    \E n \in 0 .. (Len(b) - Len(a)) : \A m \in 1 .. Len(a) : b[n + m] = a[m]

\* an exposure file: the second "_"-separated field of its name, and the
\* proposer's name of its target
ConfFiles == [visit : {"02101", "02201"}, proposer_name : {"M51", "M51-Off"}]

\* every unknown check-type counts as "not a background"
f_type_of_Lenient(f, check_bgr, check_type, background_name) ==
    IF check_bgr /\ check_type = "parallel_off"
    THEN [raised |-> FALSE, opens |-> <<>>,
          f_type |-> IF Chars(f.visit)[3] = "2" THEN "bgr" ELSE "sci"]
    ELSE IF check_bgr /\ check_type = "check_in_name"
    THEN [raised |-> FALSE, opens |-> <<f>>,
          f_type |-> IF Contains(Lower(Chars(f.proposer_name)), Chars(background_name))
                     THEN "bgr" ELSE "sci"]
    ELSE [raised |-> FALSE, opens |-> <<>>, f_type |-> "sci"]

\* parse_fits_to_table, lines 470-484: science or background
f_type_of(f, check_bgr, check_type, background_name) ==
    IF ~check_bgr THEN [raised |-> FALSE, opens |-> <<>>, f_type |-> "sci"]
    ELSE IF check_type = "parallel_off"
    THEN [raised |-> FALSE, opens |-> <<>>,
          f_type |-> IF Chars(f.visit)[3] = "2" THEN "bgr" ELSE "sci"]
    ELSE IF check_type = "check_in_name"
    THEN [raised |-> FALSE, opens |-> <<f>>,
          f_type |-> IF Contains(Lower(Chars(f.proposer_name)), Chars(background_name))
                     THEN "bgr" ELSE "sci"]
    ELSE [raised |-> TRUE, opens |-> <<>>, f_type |-> "sci"]

\* utils.parse_fits_to_table(file, check_bgr, check_type, background_name)
ParseFitsToTable ==
    /\ conf_pc = "called"
    /\ conf_call.callable = "parse_fits_to_table"
    /\ LET t == f_type_of(conf_call.file, conf_call.check_bgr, conf_call.check_type,
                          conf_call.background_name)
       IN  IF t.raised
           THEN /\ conf_pc' = "raised"
                /\ UNCHANGED <<opened, conf_return>>
           ELSE /\ conf_pc' = "returned"
                /\ opened' = opened \o t.opens \o <<conf_call.file>>
                /\ conf_return' = <<conf_call.file, t.f_type>>
    /\ UNCHANGED conf_call
    /\ UNCHANGED nonconf

\* SingleTileDestripeStep.__init__, lines 181-210
SingleTileInit ==
    /\ conf_pc = "called"
    /\ conf_call.callable = "SingleTileDestripeStep"
    /\ conf_pc' = IF conf_call.destriping_method \notin DESTRIPING_METHODS
                  THEN "raised" ELSE "constructed"
    /\ UNCHANGED <<conf_call, opened, conf_return>>
    /\ UNCHANGED nonconf

\* MultiTileDestripeStep.__init__, lines 248-274
MultiTileInit ==
    /\ conf_pc = "called"
    /\ conf_call.callable = "MultiTileDestripeStep"
    /\ conf_pc' = IF conf_call.weight_type \notin ALLOWED_WEIGHT_TYPES
                  THEN "raised" ELSE "constructed"
    /\ UNCHANGED <<conf_call, opened, conf_return>>
    /\ UNCHANGED nonconf

\* NircamDestriper.__init__, lines 80-87: the constructor opens the file
LegacyInit ==
    /\ conf_pc = "called"
    /\ conf_call.callable = "NircamDestriper"
    /\ IF conf_call.hdu_name = "None"
          \/ conf_call.destriping_method \notin LEGACY_DESTRIPING_METHODS
       THEN /\ conf_pc' = "raised"
            /\ opened' = opened
       ELSE /\ conf_pc' = "constructed"
            /\ opened' = Append(opened, conf_call.hdu_name)
    /\ UNCHANGED <<conf_call, conf_return>>
    /\ UNCHANGED nonconf

\* do_step of a constructed step: the workers open the exposures
StepRuns ==
    /\ conf_pc = "constructed"
    /\ conf_call.callable \in {"SingleTileDestripeStep", "MultiTileDestripeStep"}
    /\ conf_pc' = "ran"
    /\ opened' = Append(opened, "exposures")
    /\ UNCHANGED <<conf_call, conf_return>>
    /\ UNCHANGED nonconf

ConfCalls ==
    [callable : {"SingleTileDestripeStep"}, destriping_method : MethodNames,
     quadrants : BOOLEAN, vertical_subtraction : BOOLEAN]
    \cup [callable : {"MultiTileDestripeStep"}, weight_type : WeightNames,
          do_large_scale : BOOLEAN, overwrite : BOOLEAN]
    \cup [callable : {"NircamDestriper"}, hdu_name : {"None", "exposure"},
          destriping_method : MethodNames, quadrants : BOOLEAN]
    \cup [callable : {"parse_fits_to_table"}, file : ConfFiles, check_bgr : BOOLEAN,
          check_type : CheckTypeNames, background_name : {"off", "sky"}]

InitConf ==
    /\ conf_call \in ConfCalls
    /\ conf_pc = "called"
    /\ opened = <<>>
    /\ conf_return = <<>>
    /\ IdlePix
    /\ IdleCache
    /\ IdlePool
    /\ IdleSubset
    /\ IdlePca
    /\ IdleDownload
    /\ IdleScales
    /\ IdleQuad
    /\ IdleDq

NextConf ==
    \/ ParseFitsToTable
    \/ SingleTileInit
    \/ MultiTileInit
    \/ LegacyInit
    \/ StepRuns

\* one call with one set of arguments
SpecConf == InitConf /\ [][NextConf]_vars

UnknownMethod ==
    \/ /\ conf_call.callable = "SingleTileDestripeStep"
       /\ conf_call.destriping_method \notin DESTRIPING_METHODS
    \/ /\ conf_call.callable = "NircamDestriper"
       /\ conf_call.destriping_method \notin LEGACY_DESTRIPING_METHODS

UnknownWeightType ==
    /\ conf_call.callable = "MultiTileDestripeStep"
    /\ conf_call.weight_type \notin ALLOWED_WEIGHT_TYPES

UnknownCheckType ==
    /\ conf_call.callable = "parse_fits_to_table"
    /\ conf_call.check_type \notin {"parallel_off", "check_in_name"}

Rejected == conf_pc \in {"called", "raised"} /\ opened = <<>>

\* C9 as stated: a call with an unknown method name, weighting scheme or
\* check-type never gets past the raise, and opens no file, whatever its
\* other arguments.
C9_UnknownAlwaysRejected ==
    UnknownMethod \/ UnknownWeightType \/ UnknownCheckType => Rejected

\* C9: a call with an unknown method name or weighting scheme never gets past
\* the raise and opens no file, whatever its other arguments; a call with an
\* unknown check-type does so when the background check is requested, and
\* otherwise returns with the file classified as science.
C9_UnknownRejected ==
    /\ UnknownMethod \/ UnknownWeightType => Rejected
    /\ UnknownCheckType /\ conf_call.check_bgr => Rejected
    /\ UnknownCheckType /\ ~conf_call.check_bgr /\ conf_pc # "called" =>
            conf_pc = "returned" /\ conf_return[2] = "sci"

C9_Witness ==
    /\ UnknownCheckType
    /\ conf_call.check_bgr
    /\ conf_pc = "raised"
    /\ opened = <<>>


(***************************************************************************)
(* Synthetic scenes for the row destripers (specification SpecScene): a    *)
(* flat background, a constant offset on some rows, one bright source of   *)
(* three pixels in a row, optionally one row without a valid pixel and an  *)
(* offset on one quadrant.  A scene goes through parallel_destripe of      *)
(* SingleTileDestripeStep with run_row_median or run_remstriping as only   *)
(* stage, or through NircamDestriper.run_destriping with run_row_median.   *)
(***************************************************************************)
StripeOffset == 5

SourceValue == 100

SourceLen == 3

DeadRow == 6

SceneBackgrounds == {0, Background}

StripeRowSets == {{2, 3}, {4, 5}}

\* first pixel of the source
SourcePositions == {<<8, 2>>, <<8, 6>>, <<9, 9>>}

DeadKinds == {"none", "nan", "zero", "flagged"}

SourceCells(src) == {<<src[1], c>> : c \in src[2] .. (src[2] + SourceLen - 1)}

SceneOffsets == {<<0, 0, 0, 0>>, <<0, 0, MaxOffset, 0>>}

SceneOf(bg, stripes, src, dead, off, subarray) ==
    [data |-> Arr([r \in 1 .. NRows |-> [c \in 1 .. NCols |->
                 IF r = DeadRow /\ dead = "nan" THEN NaN
                 ELSE IF r = DeadRow /\ dead = "zero" THEN 0
                 ELSE IF <<r, c>> \in SourceCells(src) THEN SourceValue
                 ELSE bg + off[QuadrantOf(c) + 1]
                         + (IF r \in stripes THEN StripeOffset ELSE 0)]]),
     err  |-> Full(NRows, NCols, 1),
     dq   |-> Arr([r \in 1 .. NRows |-> [c \in 1 .. NCols |->
                 IF r = DeadRow /\ dead = "flagged" THEN DO_NOT_USE ELSE 0]]),
     subarray |-> subarray,
     scene |-> [bg |-> bg, stripes |-> stripes, src |-> src, dead |-> dead, off |-> off]]

Scenes ==
    {SceneOf(x[1], x[2], x[3], x[4], x[5], x[6]) :
        x \in SceneBackgrounds \X StripeRowSets \X SourcePositions \X DeadKinds
              \X SceneOffsets \X BOOLEAN}

SceneConfigs ==
    [destriping_method : {"row_median", "remstripe"}, quadrants : BOOLEAN,
     vertical_subtraction : {FALSE}, median_filter_scales : ScaleLists,
     dilate_size : {DilateSize}]

\* the arguments of NircamDestriper.__init__ that matter here
LegacySceneConfigs ==
    [destriping_method : {"row_median", "median_filter"}, quadrants : BOOLEAN,
     use_sigma_clip : BOOLEAN, median_filter_scales : ScaleLists,
     dilate_size : {DilateSize}]

\* self.quadrants of NircamDestriper: forced off for a sub-array
LegacyQuadrants == step.quadrants /\ ~file.subarray

\* ~np.isfinite(data) | (data == 0) | (dq != 0)
LegacyDqMask(data, dq) ==
    Arr([r \in 1 .. Len(data) |-> [c \in 1 .. Len(data[r]) |->
        IF ~IsFinite(data[r][c]) \/ data[r][c] = 0 \/ dq[r][c] # 0 THEN 1 ELSE 0]])

\* data[zero_idx] = 0; data[nan_idx] = np.nan, for the zeros and NaNs of orig
RestoreSentinels(orig, data) ==
    Arr([r \in 1 .. Len(data) |-> [c \in 1 .. Len(data[r]) |->
        IF orig[r][c] = 0 THEN 0
        ELSE IF IsNaN(orig[r][c]) THEN NaN
        ELSE data[r][c]]])

\* NircamDestriper.run_row_median on the science array sci: the array it
\* leaves in the hdu, the noise model it returns, and the mask it used
legacy_run_row_median(sci, dq, quads, use_sigma_clip, dilate_size) ==
    LET qs   == NColsOf(sci) \div NQuadrants
        zero == ZerosLike(sci)
        Whole(median_arr) ==
            ArrSubScalar(ArrAddRowVec(zero, median_arr), nanmedian_vec(median_arr))
        Model(data, mask) ==
            IF quads
            THEN RowMedianQuadrant(RowMedianQuadrant(RowMedianQuadrant(RowMedianQuadrant(
                     zero, data, mask, qs, 0), data, mask, qs, 1), data, mask, qs, 2),
                     data, mask, qs, 3)
            ELSE Whole(sigma_clipped_median_rows(data, mask, DefaultSigma, DefaultMaxIters))
        Out(data, mask) ==
            [data |-> RestoreSentinels(sci, data), model |-> Model(data, mask), mask |-> mask]
        Levelled(data) ==
            Out(data, MaskOr(make_source_mask(data, NoMask(data), DefaultSigma, DefaultNpixels,
                                              dilate_size, DefaultSigclipIters),
                             LegacyDqMask(data, dq)))
    IN  Levelled(legacy_level_data(ZerosToNaN(sci), use_sigma_clip, dilate_size))

\* the row medians `med` of the last pass of 'for scale in ...' on one block
RECURSIVE LastScaleMed(_, _, _)
LastScaleMed(data, mask, scales) ==
    LET raw   == ma_median_rows(data, mask)
        med   == VecNonFiniteTo(raw, 0)
        noise == VecSub(med, median_filter(med, Head(scales)))
    IN  IF Len(scales) = 1 THEN raw
        ELSE LastScaleMed(ArrSubRowVec(data, noise), mask, Tail(scales))

\* np.where(~np.isfinite(med)): a 1-tuple of row indices (1-based here)
NonFiniteRows(med) == {r \in 1 .. Len(med) : ~IsFinite(med[r])}

\* the cells np.where(np.isnan(data)) names
NanCells(data) == {p \in Cells(data) : IsNaN(data[p[1]][p[2]])}

\* data[nan_idx] = np.nan: a 2-tuple from np.where on the array names cells,
\* a 1-tuple from np.where on a vector of row medians names whole rows
NanIdx(is_rows, idx, data) ==
    IF is_rows THEN {p \in Cells(data) : p[1] \in idx} ELSE idx

\* data[zero_idx] = 0; data[nan_idx] = np.nan
LegacyRestore(sci, data, is_rows, idx) ==
    Arr([r \in 1 .. Len(data) |-> [c \in 1 .. Len(data[r]) |->
        IF <<r, c>> \in NanIdx(is_rows, idx, sci) THEN NaN
        ELSE IF sci[r][c] = 0 THEN 0
        ELSE data[r][c]]])

LegacyMedianFilterQuadrant(model, data, mask, scales, qs, i) ==
    LET noise == MedianFilterScales(ColSlice(data, i * qs, (i + 1) * qs),
                                    ColSlice(mask, i * qs, (i + 1) * qs),
                                    scales, FALSE, Vec([r \in 1 .. Len(data) |-> 0]))
    IN  AddRowVecToCols(model, i * qs, (i + 1) * qs, noise)

\* NircamDestriper.run_median_filter on the science array sci: the array it
\* leaves in the hdu, the noise model it returns, and the mask it used.  In
\* the quadrant branch nan_idx is reassigned in every pass, so that the
\* restore uses the one of the last pass of the last quadrant.
legacy_run_median_filter(sci, dq, quads, scales, use_sigma_clip, dilate_size) ==
    LET qs   == NColsOf(sci) \div NQuadrants
        zero == ZerosLike(sci)
        Model(data, mask) ==
            IF quads
            THEN LegacyMedianFilterQuadrant(LegacyMedianFilterQuadrant(
                     LegacyMedianFilterQuadrant(LegacyMedianFilterQuadrant(
                         zero, data, mask, scales, qs, 0),
                     data, mask, scales, qs, 1), data, mask, scales, qs, 2),
                     data, mask, scales, qs, 3)
            ELSE ArrAddRowVec(zero, MedianFilterScales(data, mask, scales, FALSE,
                                                       Vec([r \in 1 .. Len(data) |-> 0])))
        Restored(data, mask) ==
            IF quads /\ scales # <<>>
            THEN LegacyRestore(sci, data, TRUE,
                     NonFiniteRows(LastScaleMed(ColSlice(data, 3 * qs, 4 * qs),
                                                ColSlice(mask, 3 * qs, 4 * qs), scales)))
            ELSE LegacyRestore(sci, data, FALSE, NanCells(sci))
        Out(data, mask) ==
            [data |-> Restored(data, mask), model |-> Model(data, mask), mask |-> mask]
        Levelled(data) ==
            Out(data, MaskOr(make_source_mask(data, NoMask(data), DefaultSigma, DefaultNpixels,
                                              dilate_size, DefaultSigclipIters),
                             LegacyDqMask(data, dq)))
    IN  Levelled(legacy_level_data(ZerosToNaN(sci), use_sigma_clip, dilate_size))

InitScene ==
    /\ file \in Scenes
    /\ \/ step \in SceneConfigs /\ pc = "open"
       \/ step \in LegacySceneConfigs /\ pc = "constructed"
    /\ im_data = file.data
    /\ full_noise_model = <<>>
    /\ stage = "none"
    /\ stage_model = <<>>
    /\ stage_mask = <<>>
    /\ out_data = <<>>
    /\ IdleNonPix

\* NircamDestriper.run_destriping up to the noise model, method row_median
LegacyRowMedian ==
    /\ pc = "constructed"
    /\ step.destriping_method = "row_median"
    /\ LET Returned(out) ==
               /\ im_data' = out.data
               /\ full_noise_model' = out.model
               /\ stage_model' = out.model
               /\ stage_mask' = out.mask
       IN  Returned(legacy_run_row_median(file.data, file.dq, LegacyQuadrants,
                                          step.use_sigma_clip, step.dilate_size))
    /\ stage' = "legacy_row_median"
    /\ pc' = "modelled"
    /\ UNCHANGED <<file, step, out_data>>
    /\ UNCHANGED nonpix

\* NircamDestriper.run_destriping up to the noise model, method median_filter
LegacyMedianFilter ==
    /\ pc = "constructed"
    /\ step.destriping_method = "median_filter"
    /\ LET Returned(out) ==
               /\ im_data' = out.data
               /\ full_noise_model' = out.model
               /\ stage_model' = out.model
               /\ stage_mask' = out.mask
       IN  Returned(legacy_run_median_filter(file.data, file.dq, LegacyQuadrants,
                                             step.median_filter_scales,
                                             step.use_sigma_clip, step.dilate_size))
    /\ stage' = "legacy_median_filter"
    /\ pc' = "modelled"
    /\ UNCHANGED <<file, step, out_data>>
    /\ UNCHANGED nonpix

NextScene ==
    \/ Level
    \/ SkipVertical
    \/ RowMedian
    \/ Remstripe
    \/ LegacyRowMedian
    \/ LegacyMedianFilter
    \/ Save

SpecScene == InitScene /\ [][NextScene]_vars

\* C11: on a scene of zero background with good flags everywhere, the model
\* run_row_median returns is the row offset on the offset rows and zero on
\* every other row, and every pixel of the source is masked out of the row
\* medians.
C11_StripeRecovered ==
    (/\ stage = "row_median"
     /\ file.scene.bg = 0
     /\ file.scene.off = <<0, 0, 0, 0>>
     /\ file.scene.dead = "none") =>
        /\ \A p \in Cells(file.data) :
              stage_model[p[1]][p[2]] =
                  (IF p[1] \in file.scene.stripes THEN StripeOffset ELSE 0)
        /\ \A p \in SourceCells(file.scene.src) : stage_mask[p[1]][p[2]] # 0

\* C12: for a sub-array exposure, whatever the quadrants setting, the science
\* array is not leveled (it is the array as read until the model is
\* subtracted) and the noise model is the one built on the whole frame.
C12_SubarrayUnpartitioned ==
    file.subarray =>
        /\ pc \in {"levelled", "vertical", "modelled"} => im_data = file.data
        /\ stage = "row_median" =>
              stage_model = run_row_median(file.data, file.err, file.dq,
                                           ZerosLike(file.data), FALSE, step.dilate_size)
        /\ stage = "remstripe" =>
              stage_model = run_remstriping(file.data, file.err, file.dq,
                                            ZerosLike(file.data), TRUE, FALSE,
                                            step.dilate_size)
        /\ stage = "legacy_row_median" =>
              stage_model = legacy_run_row_median(file.data, file.dq, FALSE,
                                                  step.use_sigma_clip,
                                                  step.dilate_size).model


(***************************************************************************)
(* The PCA denoiser on one block (specification SpecPca): the whole-frame  *)
(* branch of run_pca_denoise from the masking of the training data to the  *)
(* return of reconstruct_pca, for SingleTileDestripeStep and for           *)
(* NircamDestriper.  Rows are features and columns are samples.  The       *)
(* arrays are objects: an assignment through an index writes into the      *)
(* object, an arithmetic expression makes a new one.  The mask is          *)
(* mask | dq_mask: of dtype uint8 in SingleTileDestripeStep, where dq_mask *)
(* comes from get_dq_mask, and of dtype bool in NircamDestriper.  One      *)
(* reconstruct component is kept.                                          *)
(***************************************************************************)
PcaRows == 4

PcaCols == 3

PcaBase == 20

ErrUnit == 4

\* the variables of the other parts of the program
nonpca == <<pixvars, cachevars, poolvars, subsetvars, confvars, dlvars, scalevars, quadvars, dqvars>>

\* a[idx] = v: a boolean idx selects the cells where it is true, an idx of an
\* integer dtype selects the rows whose numbers occur in it
IndexAssign(impl, a, idx, v) ==
    IF impl = "single_tile"
    THEN Arr([r \in 1 .. Len(a) |-> [c \in 1 .. Len(a[r]) |->
             IF r \in IntIndexRows(idx) THEN v ELSE a[r][c]]])
    ELSE Arr([r \in 1 .. Len(a) |-> [c \in 1 .. Len(a[r]) |->
             IF idx[r][c] # 0 THEN v ELSE a[r][c]]])

\* x / f on floats, rounded down to the unit; non-finite when f is zero
Divide(x, f) == IF IsNaN(x) \/ IsNaN(f) \/ f = 0 THEN NaN ELSE x \div f

\* scipy.stats.median_abs_deviation(a, axis=None, nan_policy="omit")
median_abs_deviation(a) ==
    LET Deviations(med) ==
            Arr([r \in 1 .. Len(a) |-> [c \in 1 .. Len(a[r]) |->
                IF IsNaN(a[r][c]) THEN NaN ELSE Abs(a[r][c] - med)]])
    IN  nanmedian_all(Deviations(nanmedian_all(a)))

\* lines 795-822 (legacy 359-381): the training arrays handed to the fit and
\* to reconstruct_pca
PcaTrainingArrays(impl, data, err, mask) ==
    LET Normalised(d, norm_median, norm_factor) ==
            LET scaled == Arr([r \in 1 .. Len(d) |-> [c \in 1 .. Len(d[r]) |->
                              Add(Divide(Sub(d[r][c], norm_median), norm_factor), 1)]])
                filled == Arr([r \in 1 .. Len(d) |-> [c \in 1 .. Len(d[r]) |->
                              IF IsNaN(scaled[r][c])
                              THEN Add(Divide(Sub(nanmedian_vec(d[r]), norm_median),
                                              norm_factor), 1)
                              ELSE scaled[r][c]]])
                data_train == IF impl = "single_tile"
                              THEN Arr([r \in 1 .. Len(d) |-> [c \in 1 .. Len(d[r]) |->
                                       IF IsNaN(filled[r][c]) THEN 0 ELSE filled[r][c]]])
                              ELSE filled
                err_train == Arr([r \in 1 .. Len(d) |-> [c \in 1 .. Len(d[r]) |->
                                 IF IsNaN(err[r][c]) THEN 0
                                 ELSE Divide(err[r][c], norm_factor)]])
            IN  [data_train |-> data_train,
                 err_train |-> IndexAssign(impl, err_train, mask, 0)]
        Masked(d) == Normalised(d, nanmedian_all(d), median_abs_deviation(d))
        NanErrors(d) == Arr([r \in 1 .. Len(d) |-> [c \in 1 .. Len(d[r]) |->
                            IF IsNaN(err[r][c]) THEN NaN ELSE d[r][c]]])
    IN  Masked(NanErrors(IndexAssign(impl, data, mask, NaN)))

\* gappy.run_normgappy(err.T, data.T, mean_array, eigen_reconstruct)[0] with
\* one component u: per sample (column) the least-squares score over the
\* features of non-zero error; zero when no feature is left
run_normgappy(err, data, mean_array, u) ==
    Vec([j \in 1 .. NColsOf(data) |->
        LET V    == {i \in 1 .. Len(data) : err[i][j] # 0}
            num  == [i \in 1 .. Len(data) |-> u[i] * (data[i][j] - mean_array[i])]
            den  == [i \in 1 .. Len(data) |-> u[i] * u[i]]
            Score(n, d) == IF d = 0 THEN 0 ELSE n \div d
        IN  IF \E i \in V : IsNaN(data[i][j]) THEN NaN
            ELSE Score(SumOf(num, V), SumOf(den, V))])

\* (scores @ eigen_reconstruct.T) + mean_array: one row per sample
Reconstruction(scores, u, mean_array) ==
    Arr([j \in 1 .. Len(scores) |-> [i \in 1 .. Len(mean_array) |->
        IF IsNaN(scores[j]) THEN NaN ELSE scores[j] * u[i] + mean_array[i]]])

\* the object noise_model is bound to at line 940: the sum is a new array,
\* against one accumulated into mean_array
ResultObject_MeanArray == "m"

ResultObject == "noise_model"

PcaObjects == {"data_train", "err_train", "mask_train", "m", "U", "noise_model"}

\* an object that does not exist yet
Unallocated == <<>>

\* the blocks explored: a row pattern with a tilt along the columns, and a
\* mask that is empty, one pixel, or column 2 from top to bottom; masked
\* pixels hold a source
PcaMasks == {{}, {<<3, 1>>}, {<<r, 2>> : r \in 1 .. PcaRows}}

PcaTilts == {0, 1}

PcaBlockOf(masked, tilt) ==
    [data |-> Arr([r \in 1 .. PcaRows |-> [c \in 1 .. PcaCols |->
                 PcaBase + 2 * r + tilt * c
                     + (IF <<r, c>> \in masked THEN SourceValue ELSE 0)]]),
     err  |-> Full(PcaRows, PcaCols, ErrUnit),
     mask |-> Arr([r \in 1 .. PcaRows |-> [c \in 1 .. PcaCols |->
                 IF <<r, c>> \in masked THEN 1 ELSE 0]])]

PcaBlocks == {PcaBlockOf(masked, tilt) : masked \in PcaMasks, tilt \in PcaTilts}

\* what vw.run_robust_pca returns or the cache file holds: a mean vector m
\* and the first eigenvector of U; the heap keeps each as an array of one row
EigenSystems ==
    [m : {[i \in 1 .. PcaRows |-> 1], [i \in 1 .. PcaRows |-> i % 3]},
     U : {[i \in 1 .. PcaRows |-> 1], [i \in 1 .. PcaRows |-> IF i = 1 THEN 0 ELSE 1]}]

InitPca ==
    /\ pca_unit \in [impl : {"single_tile", "legacy"}, cached : BOOLEAN, block : PcaBlocks]
    /\ pca_state = "unfit"
    /\ pca_origin = "none"
    /\ pca_objs = [o \in PcaObjects |-> Unallocated]
    /\ pca_ret = "none"
    /\ IdlePix
    /\ IdleCache
    /\ IdlePool
    /\ IdleSubset
    /\ IdleConf
    /\ IdleDownload
    /\ IdleScales
    /\ IdleQuad
    /\ IdleDq

\* lines 795-822: data_train, err_train and mask_train are made
PcaPrepare ==
    /\ pca_state = "unfit"
    /\ pca_objs["data_train"] = Unallocated
    /\ LET Made(t) ==
               pca_objs' = [pca_objs EXCEPT !["data_train"] = t.data_train,
                                            !["err_train"] = t.err_train,
                                            !["mask_train"] = pca_unit.block.mask]
       IN  Made(PcaTrainingArrays(pca_unit.impl, pca_unit.block.data,
                                  pca_unit.block.err, pca_unit.block.mask))
    /\ UNCHANGED <<pca_unit, pca_state, pca_origin, pca_ret>>
    /\ UNCHANGED nonpca

\* lines 824-826: the eigen-system is read from the cache file
PcaLoad ==
    /\ pca_state = "unfit"
    /\ pca_objs["data_train"] # Unallocated
    /\ pca_unit.cached
    /\ \E es \in EigenSystems :
          pca_objs' = [pca_objs EXCEPT !["m"] = <<es.m>>, !["U"] = <<es.U>>]
    /\ pca_state' = "fitted"
    /\ pca_origin' = "loaded"
    /\ UNCHANGED <<pca_unit, pca_ret>>
    /\ UNCHANGED nonpca

\* line 828: fit_robust_pca is called
PcaFitBegins ==
    /\ pca_state = "unfit"
    /\ pca_objs["data_train"] # Unallocated
    /\ ~pca_unit.cached
    /\ pca_state' = "fitting"
    /\ UNCHANGED <<pca_unit, pca_origin, pca_objs, pca_ret>>
    /\ UNCHANGED nonpca

\* lines 883-914: the fit works on copies and returns a new eigen-system
PcaFitReturns ==
    /\ pca_state = "fitting"
    /\ \E es \in EigenSystems :
          pca_objs' = [pca_objs EXCEPT !["m"] = <<es.m>>, !["U"] = <<es.U>>]
    /\ pca_state' = "fitted"
    /\ pca_origin' = "fresh"
    /\ UNCHANGED <<pca_unit, pca_ret>>
    /\ UNCHANGED nonpca

\* reconstruct_pca, lines 916-942: data[mask] = 0 and err[mask] = 0 write
\* into the caller's arrays; the result is bound to ResultObject
ReconstructPca ==
    /\ pca_state = "fitted"
    /\ LET mean_array == pca_objs["m"][1]
           eigen_reconstruct == pca_objs["U"][1]
           Solved(data, err) ==
               pca_objs' = [pca_objs EXCEPT
                   !["data_train"] = data,
                   !["err_train"] = err,
                   ![ResultObject] =
                       Reconstruction(run_normgappy(err, data, mean_array, eigen_reconstruct),
                                      eigen_reconstruct, mean_array)]
       IN  Solved(IndexAssign(pca_unit.impl, pca_objs["data_train"],
                              pca_objs["mask_train"], 0),
                  IndexAssign(pca_unit.impl, pca_objs["err_train"],
                              pca_objs["mask_train"], 0))
    /\ pca_ret' = ResultObject
    /\ pca_state' = "reconstructed"
    /\ UNCHANGED <<pca_unit, pca_origin>>
    /\ UNCHANGED nonpca

NextPca ==
    \/ PcaPrepare
    \/ PcaLoad
    \/ PcaFitBegins
    \/ PcaFitReturns
    \/ ReconstructPca

SpecPca == InitPca /\ [][NextPca]_vars

\* the states of the denoiser in the order they may be passed through
PcaStateOrder == <<"unfit", "fitting", "fitted", "reconstructed">>

PcaRank(st) == CHOOSE k \in 1 .. Len(PcaStateOrder) : PcaStateOrder[k] = st

\* C13: the denoiser of a block only moves forward through unfit,
\* fit-in-progress, fitted and reconstructed, is fitted from a fresh fit or
\* from the cache and never reconstructs before it is fitted; from the moment
\* it is fitted the mean vector and the eigenvectors stay what they are, and
\* reconstruct_pca returns an array that did not exist before the call.
C13_FittedNeverMutated ==
    [][/\ PcaRank(pca_state') >= PcaRank(pca_state)
       /\ pca_state' = "reconstructed" => pca_state \in {"fitted", "reconstructed"}
       /\ pca_state' = "fitted" => pca_origin' \in {"fresh", "loaded"}
       /\ pca_state \in {"fitted", "reconstructed"} =>
             /\ pca_objs'["m"] = pca_objs["m"]
             /\ pca_objs'["U"] = pca_objs["U"]
       /\ pca_ret' # pca_ret => pca_objs[pca_ret'] = Unallocated /\ pca_objs'[pca_ret'] # Unallocated]_vars

\* reconstruct_pca has returned for an eigen-system loaded from the cache
C13_Witness ==
    /\ pca_state = "reconstructed"
    /\ pca_origin = "loaded"
    /\ pca_ret = "noise_model"
    /\ pca_objs["noise_model"] # Unallocated
    /\ pca_objs["m"] # Unallocated


\* the columns of the block whose every pixel is masked
FullyMaskedColumns(mask) ==
    {j \in 1 .. NColsOf(mask) : \A i \in 1 .. Len(mask) : mask[i][j] # 0}

\* C14: after reconstruct_pca, the reconstruction of a column of the block
\* whose every pixel is masked is the mean vector: finite, and nothing of the
\* masked values enters it.
C14_MaskedColumnGivesMean ==
    pca_state = "reconstructed" =>
        \A j \in FullyMaskedColumns(pca_objs["mask_train"]) :
            pca_objs["noise_model"][j] = pca_objs["m"][1]


\* the pixels of the two comparison strips of boundary i
ComparisonStrips(data, i) ==
    LET qs == NColsOf(data) \div NQuadrants
    IN  StripCells(data, Strip1Lo(qs, i), Strip1Hi(qs, i))
            \cup StripCells(data, Strip2Lo(qs, i), Strip2Hi(qs, i))

\* C16: level_data takes out of the comparison strips exactly the pixels that
\* get_dq_mask flags: in the array it measures and returns, a pixel of a
\* strip is non-finite (left out of the strip medians) if and only if it is
\* flagged.
C16_ExactlyFlaggedExcluded ==
    (pc = "levelled" /\ stage = "level_data") =>
        \A i \in 0 .. 2 : \A p \in ComparisonStrips(file.data, i) :
            IsNaN(im_data[p[1]][p[2]])
                <=> get_dq_mask(file.data, file.err, file.dq)[p[1]][p[2]] # 0


\* C17: the training arrays are made with every masked pixel at zero data and
\* zero weight and every other pixel weighted, and reconstruct_pca hands the
\* projection the arrays it was given with exactly the masked pixels set to
\* zero data and zero weight.
C17_ExactlyMaskedMissing ==
    [][/\ (pca_objs["data_train"] = Unallocated /\ pca_objs'["data_train"] # Unallocated) =>
             \A p \in Cells(pca_unit.block.mask) :
                 IF pca_unit.block.mask[p[1]][p[2]] # 0
                 THEN /\ pca_objs'["data_train"][p[1]][p[2]] = 0
                      /\ pca_objs'["err_train"][p[1]][p[2]] = 0
                 ELSE pca_objs'["err_train"][p[1]][p[2]] # 0
       /\ (pca_state = "fitted" /\ pca_state' = "reconstructed") =>
             \A q \in Cells(pca_objs["mask_train"]) :
                 IF pca_objs["mask_train"][q[1]][q[2]] # 0
                 THEN /\ pca_objs'["data_train"][q[1]][q[2]] = 0
                      /\ pca_objs'["err_train"][q[1]][q[2]] = 0
                 ELSE /\ pca_objs'["data_train"][q[1]][q[2]] = pca_objs["data_train"][q[1]][q[2]]
                      /\ pca_objs'["err_train"][q[1]][q[2]] = pca_objs["err_train"][q[1]][q[2]]]_vars


(***************************************************************************)
(* archive_download.download (specification SpecDownload): the products    *)
(* are numbered 1 .. products; every call of                               *)
(* observations.download_products either returns or raises one of the      *)
(* network errors the loop catches.                                        *)
(***************************************************************************)
MaxProducts == 3

MaxRetriesBound == 3

\* the variables of the other parts of the program
nondl == <<pixvars, cachevars, poolvars, subsetvars, confvars, pcavars, scalevars, quadvars, dqvars>>

InitDownload ==
    /\ products \in 0 .. MaxProducts
    /\ max_retries \in 0 .. MaxRetriesBound
    /\ product = 0
    /\ retry = 0
    /\ success = FALSE
    /\ dl_pc = "for"
    /\ attempts = [p \in 1 .. products |-> 0]
    /\ downloaded = {}
    /\ IdlePix
    /\ IdleCache
    /\ IdlePool
    /\ IdleSubset
    /\ IdleConf
    /\ IdlePca
    /\ IdleScales
    /\ IdleQuad
    /\ IdleDq

\* lines 24-27: the for loop takes the next product
NextProduct ==
    /\ dl_pc = "for"
    /\ product < products
    /\ product' = product + 1
    /\ retry' = 0
    /\ success' = FALSE
    /\ dl_pc' = "while"
    /\ UNCHANGED <<products, max_retries, attempts, downloaded>>
    /\ UNCHANGED nondl

\* line 29: the while condition is false
LeaveWhile ==
    /\ dl_pc = "while"
    /\ ~(retry < max_retries /\ ~success)
    /\ dl_pc' = "for"
    /\ UNCHANGED <<products, max_retries, product, retry, success, attempts, downloaded>>
    /\ UNCHANGED nondl

\* lines 31-33, 37: download_products returns
AttemptSucceeds ==
    /\ dl_pc = "while"
    /\ retry < max_retries /\ ~success
    /\ attempts' = [attempts EXCEPT ![product] = @ + 1]
    /\ downloaded' = downloaded \cup {product}
    /\ success' = TRUE
    /\ dl_pc' = IF retry = max_retries THEN "raised" ELSE "while"
    /\ UNCHANGED <<products, max_retries, product, retry>>
    /\ UNCHANGED nondl

\* lines 31-32, 34-38: download_products raises a network error
AttemptFails ==
    /\ dl_pc = "while"
    /\ retry < max_retries /\ ~success
    /\ attempts' = [attempts EXCEPT ![product] = @ + 1]
    /\ retry' = retry + 1
    /\ dl_pc' = IF retry' = max_retries THEN "raised" ELSE "while"
    /\ UNCHANGED <<products, max_retries, product, success, downloaded>>
    /\ UNCHANGED nondl

\* line 40: return True
ReturnTrue ==
    /\ dl_pc = "for"
    /\ product = products
    /\ dl_pc' = "returned"
    /\ UNCHANGED <<products, max_retries, product, retry, success, attempts, downloaded>>
    /\ UNCHANGED nondl

NextDownload ==
    \/ NextProduct
    \/ LeaveWhile
    \/ AttemptSucceeds
    \/ AttemptFails
    \/ ReturnTrue

SpecDownload == InitDownload /\ [][NextDownload]_vars

\* C15: whatever max_retries >= 0 is and whichever attempts fail, no product
\* is attempted more than max_retries times, download has raised as soon as
\* the product in hand has failed max_retries times, and it has returned True
\* only when every product was downloaded.
C15_RetryContract ==
    /\ \A p \in 1 .. products : attempts[p] <= max_retries
    /\ (product > 0 /\ retry = max_retries) => dl_pc = "raised"
    /\ dl_pc = "raised" => retry = max_retries
    /\ dl_pc = "returned" => downloaded = 1 .. products


\* C18: the noise model of the row/column median destripers holds no
\* non-finite value, whether or not a row (of the frame or of a quadrant) has
\* a valid pixel, and no pixel that was finite in the input is non-finite in
\* the corrected output.
C18_EmptyRowsFoldedAsZero ==
    /\ stage \in {"row_median", "remstripe", "legacy_row_median"} =>
           \A p \in Cells(stage_model) : IsFinite(stage_model[p[1]][p[2]])
    /\ (pc = "saved" /\ stage \in {"row_median", "remstripe", "legacy_row_median"}) =>
           \A q \in Cells(file.data) :
               IsFinite(file.data[q[1]][q[2]]) => IsFinite(out_data[q[1]][q[2]])


\* what sibling k adds to the sums of input idx: its array, brought to the
\* level of idx, times its weights on the common cutout, and its weights
LevelledSibling(idx, k) ==
    LET d_k == forked_heap[data_reproj[k]]
        w_k == forked_heap[weight_reproj[k]]
    IN  [d_k EXCEPT !.array =
            ArrSubScalar(@, DiffMedian(d_k, w_k, forked_heap[data_reproj[idx]],
                                       forked_heap[weight_reproj[idx]]))]

RECURSIVE SiblingSum(_, _, _)
SiblingSum(idx, sib, weighted) ==
    IF sib = {} THEN ZerosLike(forked_heap[data_reproj[idx]].array)
    ELSE LET k == CHOOSE x \in sib : TRUE
         IN  ArrAdd(SiblingSum(idx, sib \ {k}, weighted),
                    Placed(forked_heap[data_reproj[idx]], LevelledSibling(idx, k),
                           forked_heap[weight_reproj[k]], weighted))

OwnWeighted(idx) ==
    Arr([r \in 1 .. TileRows |-> [c \in 1 .. TileCols |->
        forked_heap[weight_reproj[idx]].array[r][c]
            * forked_heap[data_reproj[idx]].array[r][c]]])

\* C19 as stated: the reference image of an input is the quotient of sums
\* over the included siblings only; the input's own values and weights are in
\* neither sum.
C19_OthersOnly ==
    \A idx \in Tiles : HasReturned(idx) =>
        subset_out[idx][1][1] = DataAvg(SiblingSum(idx, subset_out[idx][2], TRUE),
                                        SiblingSum(idx, subset_out[idx][2], FALSE))

\* C19: the reference image of an input is the quotient of two sums that
\* hold the input's own weighted values and weights and, on top of them, the
\* levelled weighted values and the weights of the included siblings.
C19_OwnPlusOthers ==
    \A idx \in Tiles : HasReturned(idx) =>
        subset_out[idx][1][1] =
            DataAvg(ArrAdd(OwnWeighted(idx), SiblingSum(idx, subset_out[idx][2], TRUE)),
                    ArrAdd(forked_heap[weight_reproj[idx]].array,
                           SiblingSum(idx, subset_out[idx][2], FALSE)))

\* a reference image was built from the input and at least one sibling
C19_Witness ==
    \E idx \in Tiles :
        /\ HasReturned(idx)
        /\ subset_out[idx][2] # {}
        /\ \E p \in Cells(subset_out[idx][1][1]) :
              subset_out[idx][1][1][p[1]][p[2]][2]
                  > forked_heap[weight_reproj[idx]].array[p[1]][p[2]]


\* the pixels of input idx whose weighted value is not zero
ValidFootprint(idx) ==
    {p \in Cells(OwnWeighted(idx)) : OwnWeighted(idx)[p[1]][p[2]] # 0}

\* the overlap of sibling k covers at least min_area_frac of the footprint of
\* idx, counting the pixels where `placed` is not zero
CoversEnough(idx, placed) ==
    Cardinality({p \in ValidFootprint(idx) : placed[p[1]][p[2]] # 0})
            * subset_step.min_area_frac[2]
        >= subset_step.min_area_frac[1] * Cardinality(ValidFootprint(idx))

\* some pixel of the cutout of idx and k has positive weight in both and a
\* non-zero difference
HasDifference(idx, k) ==
    \E p \in Cutout(forked_heap[data_reproj[k]], forked_heap[data_reproj[idx]]) :
        /\ PixelAt(forked_heap[weight_reproj[k]], p[1], p[2])
               * PixelAt(forked_heap[weight_reproj[idx]], p[1], p[2]) > 0
        /\ PixelAt(forked_heap[data_reproj[k]], p[1], p[2])
               # PixelAt(forked_heap[data_reproj[idx]], p[1], p[2])

\* C20 as stated: a sibling is in the sums exactly when it overlaps the
\* target and its valid pixels cover at least min_area_frac of the target's
\* valid footprint.
C20_IncludedIffOverlapAndArea ==
    \A idx \in Tiles : HasReturned(idx) =>
        \A k \in Tiles \ {idx} :
            k \in subset_out[idx][2]
                <=> /\ overlaps(forked_heap[data_reproj[idx]], forked_heap[data_reproj[k]])
                    /\ CoversEnough(idx, Placed(forked_heap[data_reproj[idx]],
                                                forked_heap[data_reproj[k]],
                                                forked_heap[weight_reproj[k]], TRUE))

\* the siblings the inclusion rule of the code lets into the sums of idx
IncludedSiblings(idx) ==
    {k \in Tiles \ {idx} :
        /\ overlaps(forked_heap[data_reproj[idx]], forked_heap[data_reproj[k]])
        /\ HasDifference(idx, k)
        /\ CoversEnough(idx, Placed(forked_heap[data_reproj[idx]], LevelledSibling(idx, k),
                                    forked_heap[weight_reproj[k]], TRUE))}

\* C20: a sibling is in the sums exactly when it overlaps the target, differs
\* from it on some pixel that has weight in both, and its valid levelled
\* pixels cover at least min_area_frac of the target's valid footprint; the
\* weight sum holds the weights of the target and of these siblings and of no
\* other.
C20_InclusionRule ==
    \A idx \in Tiles : HasReturned(idx) =>
        /\ subset_out[idx][2] = IncludedSiblings(idx)
        /\ \A p \in Cells(subset_out[idx][1][1]) :
              subset_out[idx][1][1][p[1]][p[2]] # <<NaN, 1>> =>
                  subset_out[idx][1][1][p[1]][p[2]][2]
                      = Add(forked_heap[weight_reproj[idx]].array[p[1]][p[2]],
                            SiblingSum(idx, IncludedSiblings(idx), FALSE)[p[1]][p[2]])

\* a reference image was built with one sibling let in and another, which
\* overlaps the target, kept out
C20_Witness ==
    \E idx \in Tiles :
        /\ HasReturned(idx)
        /\ subset_out[idx][2] # {}
        /\ \E k \in Tiles \ ({idx} \cup subset_out[idx][2]) :
              overlaps(forked_heap[data_reproj[idx]], forked_heap[data_reproj[k]])


\* C27: level_data returns its input with one constant added per quadrant:
\* quadrant 0 as it was, within every other quadrant the same shift at every
\* pixel, and every pixel that was finite in the input finite in the array
\* returned.
C27_LevelOnlyShifts ==
    (pc = "levelled" /\ stage = "level_data") =>
        \A p \in Cells(file.data) :
            /\ IsFinite(file.data[p[1]][p[2]]) => IsFinite(im_data[p[1]][p[2]])
            /\ QuadrantOf(p[2]) = 0 => im_data[p[1]][p[2]] = file.data[p[1]][p[2]]
            /\ \A q \in Cells(file.data) :
                  QuadrantOf(q[2]) = QuadrantOf(p[2]) =>
                      Sub(im_data[p[1]][p[2]], file.data[p[1]][p[2]])
                          = Sub(im_data[q[1]][q[2]], file.data[q[1]][q[2]])


(***************************************************************************)
(* The loop over median_filter_scales of run_median_filter, one scale at a *)
(* time (specification SpecScales), with use_mask on and filter_diffuse    *)
(* off: for SingleTileDestripeStep on the data parallel_destripe hands     *)
(* over, and for NircamDestriper on the levelled science array.  im_data   *)
(* is the working data (data_quadrant of every quadrant, or data),         *)
(* stage_model is full_noise_model, stage_mask is mask.                    *)
(***************************************************************************)
\* the variables of the other parts of the program
nonscale == <<cachevars, poolvars, subsetvars, confvars, pcavars, dlvars, quadvars, dqvars>>

MfScaleLists == {<<3, 5>>, <<5, 3>>}

MfConfigs ==
    [impl : {"single_tile", "legacy"}, quadrants : BOOLEAN,
     median_filter_scales : MfScaleLists, use_sigma_clip : {FALSE},
     dilate_size : {DilateSize}]

\* 0-based [lo, hi) columns of the block the scales run over
MfLo == IF step.quadrants THEN mf_i * (NColsOf(im_data) \div NQuadrants) ELSE 0

MfHi == IF step.quadrants THEN (mf_i + 1) * (NColsOf(im_data) \div NQuadrants)
        ELSE NColsOf(im_data)

\* lines 1109-1119 and 1140-1148 (legacy 617-631, 653-661): the masked row
\* medians of the block, the non-finite ones replaced, minus their filtered
\* version
ScaleNoise(data, mask, scale, impl, perQuadrant) ==
    LET Noise(med) == VecSub(med, median_filter(med, scale))
        Filled(raw) ==
            Noise(VecNonFiniteTo(raw, IF perQuadrant /\ impl = "single_tile"
                                      THEN nanmedian_vec(raw) ELSE 0))
    IN  Filled(ma_median_rows(data, mask))

\* the working data are left as they are
Corrected_NotSubtracted(data, mask, lo, hi, noise, perQuadrant) == data

\* lines 1121-1127 and 1150: per quadrant a new masked array of
\* data_quadrant.data - noise; on the whole frame data -= noise in place on a
\* masked array, which leaves the masked entries alone
Corrected(data, mask, lo, hi, noise, perQuadrant) ==
    Arr([r \in 1 .. Len(data) |-> [c \in 1 .. Len(data[r]) |->
        IF c > lo /\ c <= hi /\ (perQuadrant \/ mask[r][c] = 0)
        THEN Sub(data[r][c], noise[r])
        ELSE data[r][c]]])

InitScales ==
    /\ file \in {f \in Frames : ~f.subarray}
    /\ step \in MfConfigs
    /\ pc = "open"
    /\ im_data = file.data
    /\ full_noise_model = <<>>
    /\ stage = "none"
    /\ stage_model = <<>>
    /\ stage_mask = <<>>
    /\ out_data = <<>>
    /\ IdleScales
    /\ IdleCache
    /\ IdlePool
    /\ IdleSubset
    /\ IdleConf
    /\ IdlePca
    /\ IdleDownload
    /\ IdleQuad
    /\ IdleDq

\* lines 1061-1093 (legacy 580-597): the data and the mask the loop starts from
BeginMedianFilter ==
    /\ pc = "open"
    /\ LET Started(data, mask) ==
               /\ im_data' = data
               /\ mf_start' = data
               /\ stage_mask' = mask
               /\ stage_model' = ZerosLike(data)
           Single(data) ==
               Started(data, StageMask(data, file.err, file.dq, step.dilate_size,
                                       DefaultSigclipIters))
           Legacy(data) ==
               Started(data, MaskOr(make_source_mask(data, NoMask(data), DefaultSigma,
                                                     DefaultNpixels, step.dilate_size,
                                                     DefaultSigclipIters),
                                    LegacyDqMask(data, file.dq)))
       IN  IF step.impl = "single_tile"
           THEN Single(StageInput(IF step.quadrants
                                  THEN level_data(file.data, file.err, file.dq)
                                  ELSE file.data, ZerosLike(file.data)))
           ELSE Legacy(legacy_level_data(ZerosToNaN(file.data), step.use_sigma_clip,
                                         step.dilate_size))
    /\ mf_i' = 0
    /\ mf_left' = step.median_filter_scales
    /\ pc' = "filtering"
    /\ UNCHANGED <<file, step, full_noise_model, stage, out_data>>
    /\ UNCHANGED nonscale

\* one pass of 'for scale in self.median_filter_scales'
ScaleStep ==
    /\ pc = "filtering"
    /\ mf_left # <<>>
    /\ LET Applied(noise) ==
               /\ im_data' = Corrected(im_data, stage_mask, MfLo, MfHi, noise, step.quadrants)
               /\ stage_model' = AddRowVecToCols(stage_model, MfLo, MfHi, noise)
       IN  Applied(ScaleNoise(ColSlice(im_data, MfLo, MfHi), ColSlice(stage_mask, MfLo, MfHi),
                              Head(mf_left), step.impl, step.quadrants))
    /\ mf_left' = Tail(mf_left)
    /\ UNCHANGED <<file, step, pc, full_noise_model, stage, stage_mask, out_data, mf_i, mf_start>>
    /\ UNCHANGED nonscale

\* 'for i in range(4)' takes the next quadrant
NextQuadrant ==
    /\ pc = "filtering"
    /\ step.quadrants
    /\ mf_left = <<>>
    /\ mf_i < NQuadrants - 1
    /\ mf_i' = mf_i + 1
    /\ mf_left' = step.median_filter_scales
    /\ UNCHANGED <<pixvars, mf_start>>
    /\ UNCHANGED nonscale

\* return full_noise_model
ReturnNoiseModel ==
    /\ pc = "filtering"
    /\ mf_left = <<>>
    /\ step.quadrants => mf_i = NQuadrants - 1
    /\ stage' = "median_filter"
    /\ pc' = "modelled"
    /\ UNCHANGED <<file, step, im_data, full_noise_model, stage_model, stage_mask, out_data>>
    /\ UNCHANGED scalevars
    /\ UNCHANGED nonscale

NextScales ==
    \/ BeginMedianFilter
    \/ ScaleStep
    \/ NextQuadrant
    \/ ReturnNoiseModel

SpecScales == InitScales /\ [][NextScales]_vars


\* every scale adds to the model of its block the row-median profile of the
\* working data as they are then, minus its filtered version, and to no
\* other column
ScaleAddsItsDifference ==
    (pc = "filtering" /\ mf_left' # mf_left /\ mf_i' = mf_i) =>
        stage_model' = AddRowVecToCols(stage_model, MfLo, MfHi,
                           ScaleNoise(ColSlice(im_data, MfLo, MfHi),
                                      ColSlice(stage_mask, MfLo, MfHi),
                                      Head(mf_left), step.impl, step.quadrants))

\* C22 as stated: after every scale every pixel of the working data is the
\* starting data minus the noise accumulated so far, and every scale adds the
\* difference taken on the data corrected so far.
C22_WorkingDataIsStartMinusNoise ==
    [][/\ pc' = "filtering" =>
              \A p \in Cells(im_data') :
                  im_data'[p[1]][p[2]]
                      = Sub(mf_start'[p[1]][p[2]], stage_model'[p[1]][p[2]])
       /\ ScaleAddsItsDifference]_vars

\* C22: after every scale every pixel of the working data outside the mask
\* is the starting data minus the noise accumulated so far, and every scale
\* adds the difference taken on the data corrected so far, so that the model
\* returned is the sum of these differences in list order.
C22_UnmaskedDataIsStartMinusNoise ==
    [][/\ pc' = "filtering" =>
              \A p \in Cells(im_data') :
                  stage_mask'[p[1]][p[2]] = 0 =>
                      im_data'[p[1]][p[2]]
                          = Sub(mf_start'[p[1]][p[2]], stage_model'[p[1]][p[2]])
       /\ ScaleAddsItsDifference]_vars

\* both scales have run on a frame with stripes and the model is not flat
C22_Witness ==
    /\ pc = "modelled"
    /\ stage = "median_filter"
    /\ mf_left = <<>>
    /\ \E p \in Cells(stage_model) : stage_model[p[1]][p[2]] # 0
    /\ \E q \in Cells(stage_mask) : stage_mask[q[1]][q[2]] # 0


\* im.data with the model of the earlier stages taken off, exact zeros kept
WithoutEarlierStages(data, prev) ==
    Arr([r \in 1 .. Len(data) |-> [c \in 1 .. Len(data[r]) |->
        IF data[r][c] = 0 THEN 0 ELSE Sub(data[r][c], prev[r][c])]])

\* the model the selected method gives for the array `data` on its own
MethodModelOf(data, recon) ==
    IF step.destriping_method = "row_median"
    THEN run_row_median(data, file.err, file.dq, ZerosLike(data), quadrants, step.dilate_size)
    ELSE IF step.destriping_method = "median_filter"
    THEN run_median_filter(data, file.err, file.dq, ZerosLike(data), quadrants,
                           step.median_filter_scales, step.dilate_size)
    ELSE IF step.destriping_method = "remstripe"
    THEN run_remstriping(data, file.err, file.dq, ZerosLike(data), file.subarray,
                         quadrants, step.dilate_size)
    ELSE run_pca_denoise(data, file.err, file.dq, ZerosLike(data), file.subarray,
                         quadrants, step.dilate_size, recon)

\* C23: the vertical pass runs first and is the whole noise model when it
\* has run; the selected method then returns the model it would give for the
\* data with the vertical model taken off, and the final noise model is the
\* vertical model plus that model.
C23_VerticalThenMethod ==
    [][/\ pc' = "vertical" =>
              /\ pc = "levelled"
              /\ full_noise_model' = IF step.vertical_subtraction THEN stage_model'
                                     ELSE ZerosLike(im_data)
       /\ pc' = "modelled" =>
              /\ pc = "vertical"
              /\ stage' = step.destriping_method
              /\ full_noise_model' = ArrAdd(full_noise_model, stage_model')
              /\ \E level \in PcaLevels, amp \in PcaAmps :
                    stage_model' =
                        MethodModelOf(WithoutEarlierStages(im_data, full_noise_model),
                            PcaRecon(IF file.subarray THEN im_data ELSE Trim(im_data),
                                     level, amp))]_vars

\* a method has run after a vertical pass that found a pattern
C23_Witness ==
    /\ pc = "modelled"
    /\ step.vertical_subtraction
    /\ full_noise_model # stage_model
    /\ \E p \in Cells(stage_model) : stage_model[p[1]][p[2]] # 0


(***************************************************************************)
(* The column ranges of the four quadrants (specification SpecQuad), as    *)
(* run_row_median and run_median_filter cut them from the whole array and  *)
(* as run_remstriping and run_pca_denoise cut them from the array without  *)
(* its reference border, for a full frame of q_width columns.  A range is  *)
(* <<lo, hi>>: the columns lo < c <= hi, counted from 1, that the slice    *)
(* selects.                                                                *)
(***************************************************************************)
MinWidth == 9

MaxWidth == 28

\* the width of the detector the hard-coded range of the last quadrant fits
DetectorWidth == Quad3Hi + 2 * RefTrim

\* the variables of the other parts of the program
nonquad == <<pixvars, cachevars, poolvars, subsetvars, confvars, pcavars, dlvars, scalevars, dqvars>>

QuadMethods == {"row_median", "median_filter", "remstripe", "pca"}

TrimmedMethods == {"remstripe", "pca"}

\* the width of the array the quadrants are cut from
ModelWidth(method, width) ==
    IF method \in TrimmedMethods THEN width - 2 * RefTrim ELSE width

\* the columns a[:, start:stop] selects from an array of n columns
SliceRange(n, start, stop) == <<PyLo(n, start), Max(PyLo(n, start), PyHi(n, stop))>>

\* idx_slice of quadrant i, resolved on the array it is applied to
QuadRange(method, width, i) ==
    LET qs == width \div NQuadrants
    IN  IF method \in TrimmedMethods
        THEN SliceRange(ModelWidth(method, width), QuadSliceLo(qs, i, FALSE),
                        QuadSliceHi(qs, i, FALSE))
        ELSE SliceRange(width, i * qs, (i + 1) * qs)

InitQuad ==
    /\ q_method \in QuadMethods
    /\ q_width \in (MinWidth .. MaxWidth) \cup {DetectorWidth}
    /\ q_i = 0
    /\ q_ranges = <<>>
    /\ IdlePix
    /\ IdleCache
    /\ IdlePool
    /\ IdleSubset
    /\ IdleConf
    /\ IdlePca
    /\ IdleDownload
    /\ IdleScales
    /\ IdleDq

\* one pass of 'for i in range(4)': the slice of quadrant i is taken
TakeQuadrant ==
    /\ q_i < NQuadrants
    /\ q_ranges' = Append(q_ranges, QuadRange(q_method, q_width, q_i))
    /\ q_i' = q_i + 1
    /\ UNCHANGED <<q_method, q_width>>
    /\ UNCHANGED nonquad

NextQuad == TakeQuadrant

SpecQuad == InitQuad /\ [][NextQuad]_vars

\* the ranges follow each other without gap or overlap from the first column
\* of the array to its last
Tiles4(ranges, n) ==
    /\ ranges[1][1] = 0
    /\ \A k \in 1 .. Len(ranges) - 1 : ranges[k][2] = ranges[k + 1][1]
    /\ ranges[Len(ranges)][2] = n
    /\ \A k \in 1 .. Len(ranges) : ranges[k][1] <= ranges[k][2]

nondq == <<pixvars, cachevars, poolvars, subsetvars, confvars, pcavars, dlvars, scalevars, quadvars>>

DqCols == 2

\* flag words: no flag, DO_NOT_USE, two unrelated low flags, an unrelated
\* high flag, NON_SCIENCE, and sums of these
DqValues == {0, DO_NOT_USE, 2, 4, 256, NON_SCIENCE, DO_NOT_USE + NON_SCIENCE,
             NON_SCIENCE + 2, DO_NOT_USE + 256, 256 + 4}

InitDq ==
    /\ dq_array \in {<<row>> : row \in [1 .. DqCols -> DqValues]}
    /\ dq_bit_mask = <<>>
    /\ IdlePix
    /\ IdleCache
    /\ IdlePool
    /\ IdleSubset
    /\ IdleConf
    /\ IdlePca
    /\ IdleDownload
    /\ IdleScales
    /\ IdleQuad

GetDqBitMask ==
    /\ dq_bit_mask = <<>>
    /\ dq_bit_mask' = get_dq_bit_mask(dq_array)
    /\ UNCHANGED <<dq_array, nondq>>

NextDq == GetDqBitMask

SpecDq == InitDq /\ [][NextDq]_vars

HasFlag(value, flag) == BitAnd(value, flag) # 0

\* C25: the quality-flag test marks a pixel as excluded exactly when its
\* quality value has the DO_NOT_USE bit or the NON_SCIENCE bit set, for every
\* value the flag array can hold, values above 255 included.
C25_ExcludedIffFlagged ==
    dq_bit_mask # <<>> =>
        \A p \in Cells(dq_array) :
            (dq_bit_mask[p[1]][p[2]] # 0)
                <=> (HasFlag(dq_array[p[1]][p[2]], DO_NOT_USE)
                     \/ HasFlag(dq_array[p[1]][p[2]], NON_SCIENCE))


\* C29: in NircamDestriper with the median_filter method, a pixel that was
\* finite and non-zero in the input science array and whose noise-model value
\* is finite is finite in the written output: the sentinel restore writes
\* NaN only where the input was NaN.
C29_LegacyRestoreOnlyInputNaN ==
    (pc = "saved" /\ stage = "legacy_median_filter") =>
        \A p \in Cells(file.data) :
            (/\ IsFinite(file.data[p[1]][p[2]])
             /\ file.data[p[1]][p[2]] # 0
             /\ IsFinite(full_noise_model[p[1]][p[2]]))
                => IsFinite(out_data[p[1]][p[2]])


\* C28: the step-complete marker is in the output directory only when every
\* exposure of the batch has been processed and its corrected file saved,
\* and a do_step call that has raised or returned False leaves no marker,
\* for the single-tile and the multi-tile step alike.
C28_MarkerOnlyAfterAllSaved ==
    /\ [](/\ out_dir.marker =>
                /\ out_dir.files = {FileOf(k) : k \in Inputs}
                /\ completed = Inputs
                /\ step_pc \in {"returned_true", "start"}
          /\ step_pc \in {"raised", "returned_false"} => ~out_dir.marker)
    /\ [][(~out_dir.marker /\ out_dir'.marker) =>
              (PoolDrained /\ step_pc' = "returned_true"
               /\ \A k \in Inputs : k \in completed)]_vars

\* a do_step call has returned True after writing the marker on a second run
C28_Witness ==
    /\ out_dir.marker
    /\ step_pc = "returned_true"
    /\ runs = 2
    /\ out_dir.files = {FileOf(k) : k \in Inputs}


\* slot k of the stack holds the arrays reprojected from input k
StackEntrySet(k) ==
    /\ files_reproj[k] = FileOf(k)
    /\ data_reproj[k] = DataRef(k)
    /\ weight_reproj[k] = WeightRef(k)

\* C24: the reprojected stack is populated once per run and by the parent:
\* it changes only when do_step allocates the empty lists and when the
\* parent stores a worker's result into a slot that was still empty; and it
\* is complete, one data and one weight entry for every input file, whenever
\* the destriping phase is on, so before its first work item starts.
C24_StackCompleteBeforeDestripe ==
    /\ []((batch.mode = "multi_tile" /\ step_pc = "destripe") =>
              \A k \in Inputs : StackEntrySet(k))
    /\ [][(data_reproj' # data_reproj \/ weight_reproj' # weight_reproj) =>
              \/ /\ step_pc = "start"
                 /\ data_reproj' = NoneList
                 /\ weight_reproj' = NoneList
              \/ /\ step_pc = "reproject"
                 /\ outq # <<>>
                 /\ outq' = Tail(outq)
                 /\ running' = running
                 /\ \E k \in Inputs :
                       /\ data_reproj[k] = None
                       /\ weight_reproj[k] = None
                       /\ data_reproj' = [data_reproj EXCEPT ![k] = DataRef(k)]
                       /\ weight_reproj' = [weight_reproj EXCEPT ![k] = WeightRef(k)]]_vars

\* the first destriping work item is running on a complete stack
C24_Witness ==
    /\ batch.mode = "multi_tile"
    /\ step_pc = "destripe"
    /\ running # {}
    /\ completed = {}
    /\ \A k \in Inputs : StackEntrySet(k)


\* C30: in the reprojected stack a pixel where an exposure has no valid data,
\* stored as 0, carries zero weight under both weighting schemes, so that it
\* adds nothing to the sums of the weighted mean of any local reference.
C30_BadPixelHasZeroWeight ==
    \A k \in Tiles :
        \A p \in Cells(forked_heap[DataRef(k)].array) :
            forked_heap[DataRef(k)].array[p[1]][p[2]] = 0
                => forked_heap[WeightRef(k)].array[p[1]][p[2]] = 0


\* C21: the construction of the local reference never ends with an error:
\* whatever the stack holds (a sibling without overlap, pixels without
\* weight, a target exposure without any valid pixel) and under either
\* weighting scheme, create_subset_reproj_image returns.
C21_ReferenceNeverRaises ==
    \A idx \in Tiles : subset_out[idx] # ZeroDivisionError


=============================================================================
